---- MODULE Spec2Model ----
(***************************************************************************)
(* The document interpreter of the synthesizer: the InstanceStore          *)
(* (src/instance-store.js), the schema catalog (src/unnamed/part_002) and  *)
(* the two-pass Parser (src/unnamed/part_000).                             *)
(*                                                                         *)
(* JavaScript values are records, one field set per JavaScript type, so    *)
(* that `typeof` and `hasOwnProperty` are questions about DOMAIN:          *)
(*   null -> [null |-> TRUE]      a number  -> [num |-> n]                 *)
(*   undefined -> [undef |-> TRUE] a string -> [str |-> s]                 *)
(*   an object literal {a: x, b: y} -> the record [a |-> x, b |-> y]       *)
(* A JavaScript object used as a table (keys added at run time, iterated   *)
(* by Object.entries in insertion order) is a sequence of [k, v] entries.  *)
(* Names, scope kinds, component kinds and scope keys are plain strings;   *)
(* a null scope key is the string NoKey.                                   *)
(***************************************************************************)
EXTENDS Integers, Sequences, FiniteSets, TLC

VARIABLES store, context, text, pc, result, call, ret, calls,
          activeKeys, activeModifierKeys, activeNotes, keysDown, keyboardFocused

\* the keyboard layer of script.js: the two key sets, the ids held by
\* polyphonyManager.activeNotes, and the two facts of the page the listeners
\* depend on (the keys physically down, whether the virtual keyboard has focus)
keyboardVars ==
    <<activeKeys, activeModifierKeys, activeNotes, keysDown, keyboardFocused>>

vars == <<store, context, text, pc, result, call, ret, calls, keyboardVars>>

KeyboardInit ==
    /\ activeKeys = {}
    /\ activeModifierKeys = {}
    /\ activeNotes = {}
    /\ keysDown = {}
    /\ keyboardFocused = FALSE

-----------------------------------------------------------------------------
(* JavaScript values *)

Null == [null |-> TRUE]

Undefined == [undef |-> TRUE]

Num(n) == [num |-> n]

Str(s) == [str |-> s]

NoKey == "(null)"

IsString(v) == "str" \in DOMAIN v

IsNullish(v) == v = Null \/ v = Undefined

\* typeof v === 'object' && v (a non-null object)
IsObject(v) == DOMAIN v \cap {"null", "undef", "num", "str"} = {}

hasOwnProperty(v, p) == p \in DOMAIN v

-----------------------------------------------------------------------------
(* Tables: JavaScript objects keyed at run time, in insertion order *)

Has(o, k) == \E i \in 1..Len(o) : o[i].k = k

Idx(o, k) == CHOOSE i \in 1..Len(o) : o[i].k = k

Get(o, k) == IF Has(o, k) THEN o[Idx(o, k)].v ELSE Undefined

Put(o, k, v) ==
    IF Has(o, k) THEN [o EXCEPT ![Idx(o, k)].v = v]
    ELSE Append(o, [k |-> k, v |-> v])

Del(o, k) == SelectSeq(o, LAMBDA e : e.k # k)

Keys(o) == {o[i].k : i \in 1..Len(o)}

-----------------------------------------------------------------------------
(* InstanceStore *)

ScopeType == [GLOBAL |-> "global", TRIGGER |-> "trigger"]

\* the five buckets every component table is created with
EmptyBuckets ==
    [oscillators |-> <<>>, lfos |-> <<>>, envelopes |-> <<>>,
     filters |-> <<>>, compressors |-> <<>>]

\* Object.keys order of a component table
BucketOrder == <<"oscillators", "lfos", "envelopes", "filters", "compressors">>

reset_keepsRegistry(s) ==
    [components |-> [global |-> EmptyBuckets, triggers |-> <<>>],
     variables |-> [global |-> <<>>, triggers |-> <<>>],
     nameRegistry |-> s.nameRegistry]

reset(s) ==
    [components |-> [global |-> EmptyBuckets, triggers |-> <<>>],
     variables |-> [global |-> <<>>, triggers |-> <<>>],
     nameRegistry |-> <<>>]

\* new InstanceStore(): the constructor calls reset() on the fresh object
NewStore == reset([nameRegistry |-> <<>>])

_getComponentStorageKey(componentType) ==
    CASE componentType = "oscillator" -> "oscillators"
      [] componentType = "lfo" -> "lfos"
      [] componentType = "envelope" -> "envelopes"
      [] componentType \in {"lowpass", "highpass", "bandpass", "notch"} -> "filters"
      [] componentType = "compressor" -> "compressors"
      [] OTHER -> componentType \o "s"

isNameRegistered(s, name) == Has(s.nameRegistry, name)

\* this.nameRegistry[name] || null
getNameInfo(s, name) ==
    IF Has(s.nameRegistry, name) THEN Get(s.nameRegistry, name) ELSE Null

\* the record a trigger scope gets when an operation first touches it
NewTrigger(type) ==
    [type |-> type, components |-> EmptyBuckets,
     attributes |-> <<>>, variableOverrides |-> <<>>]

\* the trigger names a scope key of this model can be built from
TriggerNames == {"c4", "f", "g"}

\* s.startsWith(p), for the scope keys of the model
startsWith(s, p) == \E t \in TriggerNames \cup {""} : s = p \o t

True == [bool |-> TRUE]

False == [bool |-> FALSE]

\* a TypeError thrown out of the operation
TypeError == [threw |-> "TypeError"]

_registerName_overwrites(s, name, scope, type, scopeKey) ==
    [store |-> [s EXCEPT !.nameRegistry =
                   Put(@, name, [scope |-> scope, type |-> type, scopeKey |-> scopeKey])],
     ret |-> TRUE]

_registerName(s, name, scope, type, scopeKey) ==
    IF Has(s.nameRegistry, name)
    THEN [store |-> s, ret |-> FALSE]
    ELSE [store |-> [s EXCEPT !.nameRegistry =
                        Put(@, name, [scope |-> scope, type |-> type, scopeKey |-> scopeKey])],
          ret |-> TRUE]

_unregisterName(s, name) == [s EXCEPT !.nameRegistry = Del(@, name)]

\* components.triggers[scopeKey] created when absent, with the given type
EnsureTrigger(s, scopeKey, type) ==
    IF Has(s.components.triggers, scopeKey) THEN s
    ELSE [s EXCEPT !.components.triggers = Put(@, scopeKey, NewTrigger(type))]

addComponent(s, componentType, name, scope, scopeKey, attributes) ==
    LET reg == _registerName(s, name, scope, componentType, scopeKey)
        storageKey == _getComponentStorageKey(componentType)
    IN  IF ~reg.ret THEN [store |-> s, ret |-> False]
        ELSE IF scope = ScopeType.GLOBAL
        THEN IF storageKey \notin DOMAIN reg.store.components.global
             THEN [store |-> reg.store, ret |-> TypeError]
             ELSE [store |-> [reg.store EXCEPT !.components.global[storageKey] =
                                Put(@, name, [type |-> componentType, name |-> name,
                                              scope |-> ScopeType.GLOBAL,
                                              attributes |-> attributes])],
                   ret |-> True]
        ELSE LET s1 == EnsureTrigger(reg.store, scopeKey, scope)
                 t == Get(s1.components.triggers, scopeKey)
             IN  IF storageKey \notin DOMAIN t.components
                 THEN [store |-> s1, ret |-> TypeError]
                 ELSE [store |-> [s1 EXCEPT !.components.triggers =
                                    Put(@, scopeKey,
                                        [t EXCEPT !.components[storageKey] =
                                           Put(@, name, [type |-> componentType, name |-> name,
                                                         scope |-> ScopeType.TRIGGER,
                                                         scopeKey |-> scopeKey,
                                                         attributes |-> attributes])])],
                       ret |-> True]

\* the component object, or Null
getComponent(s, name) ==
    LET info == getNameInfo(s, name)
    IN  IF info = Null \/ info.type = "variable" THEN Null
        ELSE LET storageKey == _getComponentStorageKey(info.type)
             IN  IF info.scope = ScopeType.GLOBAL
                 THEN IF storageKey \notin DOMAIN s.components.global THEN TypeError
                      ELSE IF Has(s.components.global[storageKey], name)
                           THEN Get(s.components.global[storageKey], name) ELSE Null
                 ELSE IF ~Has(s.components.triggers, info.scopeKey) THEN Null
                      ELSE LET t == Get(s.components.triggers, info.scopeKey)
                           IN  IF storageKey \notin DOMAIN t.components THEN TypeError
                               ELSE IF Has(t.components[storageKey], name)
                                    THEN Get(t.components[storageKey], name) ELSE Null

_normalizeAttribute(attrValue) ==
    IF IsObject(attrValue)
       /\ (hasOwnProperty(attrValue, "value") \/ hasOwnProperty(attrValue, "modulation"))
    THEN [value |-> IF hasOwnProperty(attrValue, "value") /\ attrValue.value # Undefined
                    THEN attrValue.value ELSE Null,
          modulation |-> IF hasOwnProperty(attrValue, "modulation")
                            /\ ~IsNullish(attrValue.modulation)
                         THEN attrValue.modulation ELSE Null]
    ELSE [value |-> attrValue, modulation |-> Null]

\* the component `name` (which getComponent found) with its attributes replaced
WithComponentAttributes(s, name, attributes) ==
    LET info == getNameInfo(s, name)
        storageKey == _getComponentStorageKey(info.type)
    IN  IF info.scope = ScopeType.GLOBAL
        THEN [s EXCEPT !.components.global[storageKey] =
                Put(@, name, [Get(@, name) EXCEPT !.attributes = attributes])]
        ELSE LET t == Get(s.components.triggers, info.scopeKey)
             IN  [s EXCEPT !.components.triggers =
                    Put(@, info.scopeKey,
                        [t EXCEPT !.components[storageKey] =
                           Put(@, name, [Get(@, name) EXCEPT !.attributes = attributes])])]

updateComponentAttribute(s, name, attributeName, value) ==
    LET component == getComponent(s, name)
    IN  IF component = Null THEN [store |-> s, ret |-> False]
        ELSE IF component = TypeError THEN [store |-> s, ret |-> TypeError]
        ELSE LET existing == _normalizeAttribute(Get(component.attributes, attributeName))
             IN  [store |-> WithComponentAttributes(s, name,
                               Put(component.attributes, attributeName,
                                   [value |-> value, modulation |-> existing.modulation])),
                  ret |-> True]

updateComponentAttributeModulation(s, name, attributeName, modulationRef) ==
    LET component == getComponent(s, name)
    IN  IF component = Null THEN [store |-> s, ret |-> False]
        ELSE IF component = TypeError THEN [store |-> s, ret |-> TypeError]
        ELSE LET existing == _normalizeAttribute(Get(component.attributes, attributeName))
             IN  [store |-> WithComponentAttributes(s, name,
                               Put(component.attributes, attributeName,
                                   [value |-> existing.value, modulation |-> modulationRef])),
                  ret |-> True]

getComponentAttribute(s, name, attributeName) ==
    LET component == getComponent(s, name)
    IN  IF component = Null THEN [value |-> Null, modulation |-> Null]
        ELSE _normalizeAttribute(Get(component.attributes, attributeName))

addVariable(s, name, value, scope, scopeKey, min, max, lineNumber) ==
    LET existingInfo == getNameInfo(s, name)
        isUpdate == existingInfo # Null /\ existingInfo.type = "variable"
                    /\ existingInfo.scope = scope
        reg == _registerName(s, name, scope, "variable", scopeKey)
        variableData == [value |-> value, min |-> min, max |-> max, lineNumber |-> lineNumber]
    IN  IF ~isUpdate /\ ~reg.ret THEN [store |-> s, ret |-> False]
        ELSE LET s1 == IF isUpdate THEN s ELSE reg.store
             IN  IF scope = ScopeType.GLOBAL
                 THEN [store |-> [s1 EXCEPT !.variables.global = Put(@, name, variableData)],
                       ret |-> True]
                 ELSE [store |-> [s1 EXCEPT !.variables.triggers =
                                    Put(@, scopeKey, Put(IF Has(@, scopeKey) THEN Get(@, scopeKey)
                                                         ELSE <<>>, name, variableData))],
                       ret |-> True]

setVariableOverride_redeclares(s, name, value, scopeKey) ==
    addVariable(s, name, value, ScopeType.GLOBAL, NoKey, Null, Null, Null)

setVariableOverride(s, name, value, scopeKey) ==
    LET s1 == EnsureTrigger(s, scopeKey,
                  IF startsWith(scopeKey, "note_") THEN "note"
                  ELSE IF startsWith(scopeKey, "key_") THEN "key" ELSE "master")
        t == Get(s1.components.triggers, scopeKey)
    IN  [store |-> [s1 EXCEPT !.components.triggers =
                      Put(@, scopeKey, [t EXCEPT !.variableOverrides = Put(@, name, value)])],
         ret |-> Undefined]

\* the resolved value, or Null
resolveVariable_globalFirst(s, name, scopeKey) ==
    IF Has(s.variables.global, name) THEN Get(s.variables.global, name).value
    ELSE IF scopeKey # NoKey /\ Has(s.components.triggers, scopeKey)
            /\ Has(Get(s.components.triggers, scopeKey).variableOverrides, name)
    THEN Get(Get(s.components.triggers, scopeKey).variableOverrides, name)
    ELSE IF scopeKey # NoKey /\ Has(s.variables.triggers, scopeKey)
            /\ Has(Get(s.variables.triggers, scopeKey), name)
    THEN Get(Get(s.variables.triggers, scopeKey), name).value
    ELSE Null

resolveVariable(s, name, scopeKey) ==
    IF scopeKey # NoKey /\ Has(s.components.triggers, scopeKey)
       /\ Has(Get(s.components.triggers, scopeKey).variableOverrides, name)
    THEN Get(Get(s.components.triggers, scopeKey).variableOverrides, name)
    ELSE IF scopeKey # NoKey /\ Has(s.variables.triggers, scopeKey)
            /\ Has(Get(s.variables.triggers, scopeKey), name)
    THEN Get(Get(s.variables.triggers, scopeKey), name).value
    ELSE IF Has(s.variables.global, name)
    THEN Get(s.variables.global, name).value
    ELSE Null

setTriggerAttribute(s, scopeKey, attributeName, value) ==
    LET s1 == EnsureTrigger(s, scopeKey,
                  IF scopeKey = "master" THEN "master"
                  ELSE IF startsWith(scopeKey, "note_") THEN "note" ELSE "key")
        t == Get(s1.components.triggers, scopeKey)
        existing == _normalizeAttribute(Get(t.attributes, attributeName))
    IN  [store |-> [s1 EXCEPT !.components.triggers =
                      Put(@, scopeKey,
                          [t EXCEPT !.attributes =
                             Put(@, attributeName,
                                 [value |-> value, modulation |-> existing.modulation])])],
         ret |-> Undefined]

setTriggerAttributeModulation(s, scopeKey, attributeName, modulationRef) ==
    LET s1 == EnsureTrigger(s, scopeKey,
                  IF scopeKey = "master" THEN "master"
                  ELSE IF startsWith(scopeKey, "note_") THEN "note" ELSE "key")
        t == Get(s1.components.triggers, scopeKey)
        existing == _normalizeAttribute(Get(t.attributes, attributeName))
    IN  [store |-> [s1 EXCEPT !.components.triggers =
                      Put(@, scopeKey,
                          [t EXCEPT !.attributes =
                             Put(@, attributeName,
                                 [value |-> existing.value, modulation |-> modulationRef])])],
         ret |-> Undefined]

removeComponent(s, name) ==
    LET info == getNameInfo(s, name)
    IN  IF info = Null \/ info.type = "variable" THEN [store |-> s, ret |-> False]
        ELSE LET storageKey == _getComponentStorageKey(info.type)
             IN  IF info.scope = ScopeType.GLOBAL
                 THEN IF storageKey \notin DOMAIN s.components.global
                      THEN [store |-> s, ret |-> TypeError]
                      ELSE [store |-> _unregisterName(
                                        [s EXCEPT !.components.global[storageKey] = Del(@, name)],
                                        name),
                            ret |-> True]
                 ELSE IF ~Has(s.components.triggers, info.scopeKey)
                      THEN [store |-> _unregisterName(s, name), ret |-> True]
                      ELSE LET t == Get(s.components.triggers, info.scopeKey)
                           IN  IF storageKey \notin DOMAIN t.components
                               THEN [store |-> s, ret |-> TypeError]
                               ELSE [store |-> _unregisterName(
                                                 [s EXCEPT !.components.triggers =
                                                    Put(@, info.scopeKey,
                                                        [t EXCEPT !.components[storageKey] =
                                                           Del(@, name)])],
                                                 name),
                                     ret |-> True]

removeVariable(s, name) ==
    LET info == getNameInfo(s, name)
    IN  IF info = Null \/ info.type # "variable" THEN [store |-> s, ret |-> False]
        ELSE IF info.scope = ScopeType.GLOBAL
        THEN [store |-> _unregisterName([s EXCEPT !.variables.global = Del(@, name)], name),
              ret |-> True]
        ELSE IF ~Has(s.variables.triggers, info.scopeKey)
        THEN [store |-> _unregisterName(s, name), ret |-> True]
        ELSE [store |-> _unregisterName(
                          [s EXCEPT !.variables.triggers =
                             Put(@, info.scopeKey, Del(Get(@, info.scopeKey), name))],
                          name),
              ret |-> True]

RECURSIVE Spread(_, _)
\* { ...a, ...b } for two tables
Spread(a, b) ==
    IF Len(b) = 0 THEN a ELSE Spread(Put(a, b[1].k, b[1].v), Tail(b))

getAllComponentsInScope_global(s, scope, scopeKey) == [ref |-> "components.global"]

\* the returned object: the store's own global tables (a reference to them),
\* or newly built tables
getAllComponentsInScope(s, scope, scopeKey) ==
    IF scope = ScopeType.GLOBAL THEN [ref |-> "components.global"]
    ELSE LET global == s.components.global
             own == IF Has(s.components.triggers, scopeKey)
                    THEN Get(s.components.triggers, scopeKey).components
                    ELSE [storageKey \in DOMAIN global |-> <<>>]
         IN  [tables |-> [storageKey \in DOMAIN global |->
                             Spread(global[storageKey], own[storageKey])]]

ActionsOf_modulationFirst(attrName, attrData) ==
    LET normalized == _normalizeAttribute(attrData)
        unit == IF attrName = "pitch" THEN "cents" ELSE "percentage"
    IN  IF attrName \notin {"pitch", "volume"} THEN <<>>
        ELSE (IF ~IsNullish(normalized.modulation)
              THEN <<[type |-> "apply_modulation", target |-> attrName,
                      modulator |-> normalized.modulation]>>
              ELSE <<>>)
             \o (IF ~IsNullish(normalized.value)
                 THEN <<[type |-> "set_" \o attrName, value |-> normalized.value,
                         unit |-> unit]>>
                 ELSE <<>>)

\* the actions one entry of trigger.attributes contributes
ActionsOf(attrName, attrData) ==
    LET normalized == _normalizeAttribute(attrData)
        unit == IF attrName = "pitch" THEN "cents" ELSE "percentage"
    IN  IF attrName \notin {"pitch", "volume"} THEN <<>>
        ELSE (IF ~IsNullish(normalized.value)
              THEN <<[type |-> "set_" \o attrName, value |-> normalized.value,
                      unit |-> unit]>>
              ELSE <<>>)
             \o (IF ~IsNullish(normalized.modulation)
                 THEN <<[type |-> "apply_modulation", target |-> attrName,
                         modulator |-> normalized.modulation]>>
                 ELSE <<>>)

RECURSIVE CollectFrom(_)
\* the loop over Object.entries(trigger.attributes)
CollectFrom(attributes) ==
    IF Len(attributes) = 0 THEN <<>>
    ELSE ActionsOf(attributes[1].k, attributes[1].v) \o CollectFrom(Tail(attributes))

collectActions(s, scopeKey) ==
    IF ~Has(s.components.triggers, scopeKey) THEN <<>>
    ELSE CollectFrom(Get(s.components.triggers, scopeKey).attributes)

-----------------------------------------------------------------------------
(* Schema catalog: the fields of each attribute schema that the parser reads *)
(* (type, values, default, allowCustom, canReference, acceptsComponents,     *)
(* acceptsModulation); an absent field is absent from the record.  The two   *)
(* fractional defaults (compressor attack 0.003 and release 0.25) are never  *)
(* read by the parser and are left out.                                      *)

AttributeType ==
    [NUMBER |-> "number", INTEGER |-> "integer", PERCENTAGE |-> "percentage",
     TIME_MS |-> "time_ms", TIME_SEC |-> "time_sec", FREQUENCY |-> "frequency",
     ENUM |-> "enum", VARIABLE_REF |-> "variable_ref", COMPONENT_REF |-> "component_ref"]

COMPONENT_SCHEMAS ==
    [oscillator |-> [attributes |->
        [wave |-> [type |-> "enum", values |-> <<"sine", "square", "sawtooth", "triangle">>,
                   default |-> Str("sine")],
         octave |-> [type |-> "integer", default |-> Num(0)],
         detune |-> [type |-> "integer", default |-> Num(0)],
         volume |-> [type |-> "percentage", default |-> Num(50),
                     canReference |-> {"variable_ref", "component_ref"},
                     acceptsModulation |-> {"lfo", "envelope"}],
         pitch |-> [type |-> "component_ref", acceptsComponents |-> {"lfo"}],
         attack |-> [type |-> "time_ms", default |-> Num(100),
                     canReference |-> {"variable_ref"}],
         sustain |-> [type |-> "percentage", default |-> Num(50),
                      canReference |-> {"variable_ref"}],
         release |-> [type |-> "time_ms", default |-> Num(500),
                      canReference |-> {"variable_ref"}]]],
     lfo |-> [attributes |->
        [rate |-> [type |-> "number", default |-> Num(5), canReference |-> {"variable_ref"}],
         depth |-> [type |-> "number", default |-> Num(10), canReference |-> {"variable_ref"}],
         wave |-> [type |-> "enum", values |-> <<"sine", "triangle", "square", "sawtooth">>,
                   default |-> Str("sine")]]],
     envelope |-> [attributes |->
        [attack |-> [type |-> "time_ms", default |-> Num(100),
                     canReference |-> {"variable_ref"}],
         decay |-> [type |-> "time_ms", default |-> Num(100),
                    canReference |-> {"variable_ref"}],
         sustain |-> [type |-> "percentage", default |-> Num(100),
                      canReference |-> {"variable_ref"}],
         release |-> [type |-> "time_ms", default |-> Num(500),
                      canReference |-> {"variable_ref"}]]],
     filter |-> [attributes |->
        [frequency |-> [type |-> "frequency", default |-> Num(20000),
                        canReference |-> {"variable_ref", "component_ref"},
                        acceptsModulation |-> {"lfo", "envelope"}],
         resonance |-> [type |-> "number", default |-> Num(1),
                        canReference |-> {"variable_ref", "component_ref"},
                        acceptsModulation |-> {"lfo", "envelope"}]]],
     compressor |-> [attributes |->
        [threshold |-> [type |-> "number", default |-> Num(-20),
                        canReference |-> {"variable_ref"}],
         ratio |-> [type |-> "number", default |-> Num(12), canReference |-> {"variable_ref"}],
         knee |-> [type |-> "number", default |-> Num(30), canReference |-> {"variable_ref"}],
         attack |-> [type |-> "time_sec", canReference |-> {"variable_ref"}],
         release |-> [type |-> "time_sec", canReference |-> {"variable_ref"}]]]]

TRIGGER_SCHEMAS ==
    [master |-> [canHaveAttributes |-> TRUE, attributes |->
        [volume |-> [type |-> "percentage", default |-> Num(80),
                     canReference |-> {"variable_ref"}],
         attack |-> [type |-> "time_ms", default |-> Num(100),
                     canReference |-> {"variable_ref"}],
         decay |-> [type |-> "time_ms", default |-> Num(100),
                    canReference |-> {"variable_ref"}],
         sustain |-> [type |-> "percentage", default |-> Num(100),
                      canReference |-> {"variable_ref"}],
         release |-> [type |-> "time_ms", default |-> Num(500),
                      canReference |-> {"variable_ref"}],
         filter |-> [type |-> "component_ref", acceptsComponents |-> {"filter"}],
         compressor |-> [type |-> "component_ref", acceptsComponents |-> {"compressor"}],
         envelope |-> [type |-> "component_ref", acceptsComponents |-> {"envelope"}],
         chord |-> [type |-> "enum", values |-> <<"none">>, default |-> Str("none"),
                    allowCustom |-> TRUE]]],
     note |-> [requiresName |-> TRUE, canHaveAttributes |-> FALSE],
     key |-> [requiresName |-> TRUE, canHaveAttributes |-> FALSE]]

getComponentSchema(typeName) ==
    IF typeName \in DOMAIN COMPONENT_SCHEMAS THEN COMPONENT_SCHEMAS[typeName] ELSE Null

getTriggerSchema(typeName) ==
    IF typeName \in DOMAIN TRIGGER_SCHEMAS THEN TRIGGER_SCHEMAS[typeName] ELSE Null

getAttributeSchema(componentType, attributeName) ==
    LET schema == getComponentSchema(componentType)
    IN  IF schema # Null /\ attributeName \in DOMAIN schema.attributes
        THEN schema.attributes[attributeName] ELSE Null

getTriggerAttributeSchema(triggerType, attributeName) ==
    LET schema == getTriggerSchema(triggerType)
    IN  IF schema # Null /\ "attributes" \in DOMAIN schema
           /\ attributeName \in DOMAIN schema.attributes
        THEN schema.attributes[attributeName] ELSE Null

getAllComponentTypes == DOMAIN COMPONENT_SCHEMAS

getAllTriggerTypes == DOMAIN TRIGGER_SCHEMAS

\* schema.field is truthy: present, and true when it is one of the flags
Truthy(schema, field) ==
    /\ field \in DOMAIN schema
    /\ field \in {"requiresName", "canHaveAttributes", "allowCustom"} => schema[field]

-----------------------------------------------------------------------------
(* ParseContext *)

\* ParseContext.reset(): the scope stack holds the global sentinel
NewContext ==
    [scopeStack |-> <<[type |-> "global", key |-> NoKey, indent |-> -1]>>,
     currentComponent |-> Null, currentTrigger |-> Null, currentAttribute |-> Null,
     lineNumber |-> 0, errors |-> <<>>, warnings |-> <<>>]

getCurrentScope(c) == c.scopeStack[Len(c.scopeStack)]

pushScope(c, type, key, indent) ==
    [c EXCEPT !.scopeStack = Append(@, [type |-> type, key |-> key, indent |-> indent])]

RECURSIVE popScopesToIndent(_, _)
popScopesToIndent(c, indent) ==
    IF Len(c.scopeStack) > 1 /\ getCurrentScope(c).indent >= indent
    THEN popScopesToIndent(
             [c EXCEPT !.scopeStack = SubSeq(@, 1, Len(@) - 1)], indent)
    ELSE c

addError(c, message) ==
    [c EXCEPT !.errors = Append(@, [line |-> c.lineNumber, message |-> message])]

addWarning(c, message) ==
    [c EXCEPT !.warnings = Append(@, [line |-> c.lineNumber, message |-> message])]

-----------------------------------------------------------------------------
(* Lines of text.  A line is its leading whitespace characters and its      *)
(* words, which single spaces separate: [ws |-> <<" ", " ">>,               *)
(* words |-> <<"pitch", "vib">>] is the line "  pitch vib".  A variable     *)
(* line may end in a bracketed range, whose comma-separated parts are the   *)
(* field `range`.                                                           *)

RECURSIVE join(_, _)
\* parts.join(sep)
join(parts, sep) ==
    IF Len(parts) = 0 THEN ""
    ELSE IF Len(parts) = 1 THEN parts[1]
    ELSE parts[1] \o sep \o join(Tail(parts), sep)

\* line.trim()
trim(line) ==
    join(line.words, " ")
    \o (IF "range" \in DOMAIN line THEN " [" \o join(line.range, ", ") \o "]" ELSE "")

\* parts.slice(1).join(' ').trim()
rest(words) == IF Len(words) <= 1 THEN "" ELSE join(Tail(words), " ")

RECURSIVE CountIndent(_)
CountIndent(ws) ==
    IF Len(ws) = 0 THEN 0
    ELSE (IF ws[1] = " " THEN 1 ELSE 2) + CountIndent(Tail(ws))

_getIndent(line) == CountIndent(line.ws)

\* line.trim() === '' || line.trim().startsWith('#')
IsBlankOrComment(line) == Len(line.words) = 0 \/ line.words[1] = "#"

\* the texts of the model that parseFloat reads a number from
NumberTexts ==
    ("0" :> 0) @@ ("1" :> 1) @@ ("2" :> 2) @@ ("5" :> 5) @@ ("50" :> 50)
    @@ ("120" :> 120) @@ ("-1" :> -1) @@ ("1+1" :> 1)

NaN == [nan |-> TRUE]

parseFloat(valueStr) ==
    IF valueStr \in DOMAIN NumberTexts THEN Num(NumberTexts[valueStr]) ELSE NaN

\* /[+\-*/()]/.test(value), for the texts of the model
HasOperator(value) == value \in {"1+1", "-1"}

\* /^-?\d+\.?\d*$/.test(value), for the texts of the model
IsNumberLiteral(value) == value \in DOMAIN NumberTexts \ {"1+1"}

isExpression(value) == HasOperator(value) /\ ~IsNumberLiteral(value)

_parseValue(valueStr) ==
    LET num == parseFloat(valueStr)
    IN  IF num # NaN THEN num ELSE Str(valueStr)

\* /^\w+$/.test(word), for the words of the model
IsWord(word) == word \notin {"=", "#", "1+1", "-1", ""}

_isVariable(line) ==
    /\ Len(line.words) >= 2
    /\ line.words[1] = "variable"
    /\ \E i \in 1..Len(line.words) : line.words[i] = "="

_isTrigger(line) == Len(line.words) >= 1 /\ line.words[1] \in getAllTriggerTypes

_isComponent(line) == Len(line.words) >= 1 /\ line.words[1] \in getAllComponentTypes

_isModulation(line) == Len(line.words) >= 2 /\ line.words[1] = "modulation"

-----------------------------------------------------------------------------
(* Parser, Pass 1.  The operators work on p = [store, context, threw]: the  *)
(* parser's store and context, and whether a call has thrown.               *)

Thrown(p) == [p EXCEPT !.threw = TRUE]

\* array.includes(x), for the arrays the schemas keep as sequences
includes(array, x) == \E i \in 1..Len(array) : array[i] = x

\* attrSchema.default
DefaultOf(attrSchema) ==
    IF "default" \in DOMAIN attrSchema THEN attrSchema.default ELSE Undefined

\* `${v}` for a number or a string
Text(v) ==
    IF "num" \in DOMAIN v THEN ToString(v.num)
    ELSE IF "str" \in DOMAIN v THEN v.str ELSE "undefined"

IsComponentRef(v) == IsObject(v) /\ "type" \in DOMAIN v /\ v.type = "component_ref"

\* the value the text denotes, and the context with what was reported
_resolveAttributeValue(s, c, valueStr, ownerType, attributeName, attrSchema) ==
    LET info == getNameInfo(s, valueStr)
        literal == IF isExpression(valueStr)
                   THEN [type |-> "expression", value |-> Str(valueStr)]
                   ELSE _parseValue(valueStr)
    IN  IF attrSchema = Null THEN [value |-> literal, context |-> c]
        ELSE IF /\ (attrSchema.type = AttributeType.COMPONENT_REF
                    \/ Truthy(attrSchema, "acceptsModulation"))
                /\ info # Null /\ info.type # "variable"
        THEN IF Truthy(attrSchema, "acceptsComponents")
                /\ info.type \notin attrSchema.acceptsComponents
             THEN [value |-> Null,
                   context |-> addError(c, "Attribute \"" \o attributeName
                       \o "\" cannot accept component type \"" \o info.type \o "\"")]
             ELSE IF ~Truthy(attrSchema, "acceptsComponents")
                     /\ Truthy(attrSchema, "acceptsModulation")
                     /\ info.type \notin attrSchema.acceptsModulation
             THEN [value |-> Null,
                   context |-> addError(c, "Attribute \"" \o attributeName
                       \o "\" cannot accept modulation from \"" \o info.type \o "\"")]
             ELSE [value |-> [type |-> "component_ref", value |-> Str(valueStr),
                              componentType |-> Str(info.type)],
                   context |-> c]
        ELSE LET isVariable == info # Null /\ info.type = "variable"
                 canReference == "canReference" \in DOMAIN attrSchema
                                 /\ AttributeType.VARIABLE_REF \in attrSchema.canReference
                 c1 == IF isVariable /\ ~canReference
                       THEN addWarning(c, "Attribute \"" \o attributeName
                                \o "\" cannot reference variables")
                       ELSE c
             IN  IF isVariable /\ canReference
                 THEN [value |-> [type |-> "variable_ref", value |-> Str(valueStr)],
                       context |-> c]
                 ELSE IF attrSchema.type = AttributeType.ENUM
                 THEN IF includes(attrSchema.values, valueStr)
                         \/ Truthy(attrSchema, "allowCustom")
                      THEN [value |-> Str(valueStr), context |-> c1]
                      ELSE [value |-> DefaultOf(attrSchema),
                            context |-> addError(c1, "Invalid enum value \"" \o valueStr
                                \o "\" for attribute \"" \o attributeName
                                \o "\". Valid values: " \o join(attrSchema.values, ", "))]
                 ELSE [value |-> literal, context |-> c1]

DeprecatedSyntax(attributeName, valueStr, attrSchema) ==
    "Deprecated syntax: \"" \o attributeName \o " " \o valueStr \o "\". Use \""
    \o attributeName \o " " \o Text(DefaultOf(attrSchema))
    \o "\" with nested \"modulation " \o valueStr \o "\" instead."

_parseComponentAttribute(p, attributeName, valueStr, indent) ==
    LET type == p.context.currentComponent.type
        name == p.context.currentComponent.name
        attrSchema == getAttributeSchema(type, attributeName)
        c1 == IF attrSchema = Null
              THEN addWarning(p.context, "Unknown attribute \"" \o attributeName
                       \o "\" for component type \"" \o type \o "\"")
              ELSE p.context
        r == _resolveAttributeValue(p.store, c1, valueStr, type, attributeName, attrSchema)
        rewrite == /\ IsComponentRef(r.value) /\ attrSchema # Null
                   /\ Truthy(attrSchema, "acceptsModulation")
                   /\ ~Truthy(attrSchema, "acceptsComponents")
        u1 == updateComponentAttribute(p.store, name, attributeName,
                  IF rewrite THEN DefaultOf(attrSchema) ELSE r.value)
        u2 == IF rewrite
              THEN updateComponentAttributeModulation(u1.store, name, attributeName, r.value)
              ELSE u1
        c2 == IF rewrite
              THEN addWarning(r.context, DeprecatedSyntax(attributeName, valueStr, attrSchema))
              ELSE r.context
    IN  IF u1.ret = TypeError \/ u2.ret = TypeError
        THEN Thrown([p EXCEPT !.context = c2])
        ELSE [p EXCEPT !.store = u2.store,
                       !.context = [c2 EXCEPT !.currentAttribute =
                           [name |-> attributeName, indent |-> indent, isComponent |-> TRUE]]]

_parseTriggerAttribute(p, attributeName, valueStr, indent) ==
    LET type == p.context.currentTrigger.type
        key == p.context.currentTrigger.key
        triggerSchema == getTriggerSchema(type)
        attrSchema == getTriggerAttributeSchema(type, attributeName)
        c1 == IF attrSchema = Null
              THEN addWarning(p.context, "Unknown attribute \"" \o attributeName
                       \o "\" for trigger \"" \o type \o "\"")
              ELSE p.context
        r == _resolveAttributeValue(p.store, c1, valueStr, type, attributeName, attrSchema)
        rewrite == /\ IsComponentRef(r.value) /\ attrSchema # Null
                   /\ Truthy(attrSchema, "acceptsModulation")
                   /\ ~Truthy(attrSchema, "acceptsComponents")
        u1 == setTriggerAttribute(p.store, key, attributeName,
                  IF rewrite THEN DefaultOf(attrSchema) ELSE r.value)
        u2 == IF rewrite
              THEN setTriggerAttributeModulation(u1.store, key, attributeName, r.value)
              ELSE u1
        c2 == IF rewrite
              THEN addWarning(r.context, DeprecatedSyntax(attributeName, valueStr, attrSchema))
              ELSE r.context
    IN  IF triggerSchema = Null \/ ~Truthy(triggerSchema, "canHaveAttributes")
        THEN [p EXCEPT !.context = addError(@, "Trigger \"" \o type
                                                 \o "\" cannot have attributes")]
        ELSE [p EXCEPT !.store = u2.store,
                       !.context = [c2 EXCEPT !.currentAttribute =
                           [name |-> attributeName, indent |-> indent,
                            isComponent |-> FALSE, triggerKey |-> key]]]

_parseAttribute(p, line, indent) ==
    LET attributeName == line.words[1]
        valueStr == rest(line.words)
    IN  IF valueStr = ""
        THEN [p EXCEPT !.context = addError(@, "Attribute \"" \o attributeName
                                                 \o "\" requires a value")]
        ELSE IF p.context.currentComponent # Null
        THEN _parseComponentAttribute(p, attributeName, valueStr, indent)
        ELSE IF p.context.currentTrigger # Null
        THEN _parseTriggerAttribute(p, attributeName, valueStr, indent)
        ELSE [p EXCEPT !.context = addError(@, "Attribute \"" \o attributeName
                                                 \o "\" must be inside a component or trigger")]

_parseModulation(p, line, indent) ==
    LET modulatorName == rest(line.words)
        c == p.context
        modulationRef == [type |-> "component_ref", value |-> Str(modulatorName),
                          componentType |-> Null]
    IN  IF Len(line.words) < 2
        THEN [p EXCEPT !.context = addError(@,
                 "Modulation requires a modulator name (e.g., \"modulation vibrato\")")]
        ELSE IF c.currentAttribute = Null
        THEN [p EXCEPT !.context = addError(@, "Modulation must be nested under an attribute")]
        ELSE IF c.currentAttribute.isComponent /\ c.currentComponent # Null
        THEN LET u == updateComponentAttributeModulation(
                          p.store, c.currentComponent.name, c.currentAttribute.name,
                          modulationRef)
             IN  IF u.ret = TypeError THEN Thrown(p) ELSE [p EXCEPT !.store = u.store]
        ELSE IF ~c.currentAttribute.isComponent /\ c.currentTrigger # Null
        THEN [p EXCEPT !.store = setTriggerAttributeModulation(
                                     @, c.currentAttribute.triggerKey,
                                     c.currentAttribute.name, modulationRef).store]
        ELSE p

\* a trigger header that leaves the current component in place
_parseTrigger_keepsComponent(p, line, indent) ==
    LET triggerType == line.words[1]
        triggerName == rest(line.words)
        schema == getTriggerSchema(triggerType)
        scopeKey == IF triggerType = "master" THEN "master"
                    ELSE IF triggerType = "note" THEN "note_" \o triggerName
                    ELSE "key_" \o triggerName
    IN  IF schema = Null
        THEN [p EXCEPT !.context = addError(@, "Unknown trigger type: " \o triggerType)]
        ELSE IF Truthy(schema, "requiresName") /\ triggerName = ""
        THEN [p EXCEPT !.context = addError(@, "Trigger \"" \o triggerType
                                                 \o "\" requires a name")]
        ELSE [p EXCEPT !.context =
                 [pushScope(@, triggerType, scopeKey, indent) EXCEPT
                     !.currentTrigger = [type |-> triggerType, key |-> scopeKey]]]

_parseTrigger(p, line, indent) ==
    LET triggerType == line.words[1]
        triggerName == rest(line.words)
        schema == getTriggerSchema(triggerType)
        scopeKey == IF triggerType = "master" THEN "master"
                    ELSE IF triggerType = "note" THEN "note_" \o triggerName
                    ELSE "key_" \o triggerName
    IN  IF schema = Null
        THEN [p EXCEPT !.context = addError(@, "Unknown trigger type: " \o triggerType)]
        ELSE IF Truthy(schema, "requiresName") /\ triggerName = ""
        THEN [p EXCEPT !.context = addError(@, "Trigger \"" \o triggerType
                                                 \o "\" requires a name")]
        ELSE [p EXCEPT !.context =
                 [pushScope(@, triggerType, scopeKey, indent) EXCEPT
                     !.currentTrigger = [type |-> triggerType, key |-> scopeKey],
                     !.currentComponent = Null]]

_parseComponent(p, line, indent) ==
    LET componentType == line.words[1]
        componentName == rest(line.words)
        currentScope == getCurrentScope(p.context)
        isGlobal == currentScope.type = "global"
        added == addComponent(p.store, componentType, componentName,
                              IF isGlobal THEN "global" ELSE "trigger",
                              IF isGlobal THEN NoKey ELSE currentScope.key, <<>>)
    IN  IF componentName = ""
        THEN [p EXCEPT !.context = addError(@, "Component \"" \o componentType
                                                 \o "\" requires a name")]
        ELSE IF getComponentSchema(componentType) = Null
        THEN [p EXCEPT !.context = addError(@, "Unknown component type: " \o componentType)]
        ELSE IF added.ret = TypeError THEN Thrown([p EXCEPT !.store = added.store])
        ELSE IF added.ret = False
        THEN [p EXCEPT !.context = addError(@, "Component name \"" \o componentName
                                                 \o "\" is already in use")]
        ELSE [p EXCEPT !.store = added.store,
                       !.context.currentComponent =
                           [type |-> componentType, name |-> componentName,
                            scope |-> IF isGlobal THEN "global" ELSE "trigger",
                            scopeKey |-> currentScope.key]]

_parseVariable(p, line, indent) ==
    LET words == line.words
        name == words[2]
        hasRange == "range" \in DOMAIN line
        value == _parseValue(join(SubSeq(words, 4, Len(words)), " "))
        rangeOk == hasRange /\ Len(line.range) = 2
                   /\ parseFloat(line.range[1]) # NaN /\ parseFloat(line.range[2]) # NaN
        min == IF rangeOk THEN parseFloat(line.range[1]) ELSE Null
        max == IF rangeOk THEN parseFloat(line.range[2]) ELSE Null
        c1 == IF hasRange /\ Len(line.range) = 2 /\ ~rangeOk
              THEN addWarning(p.context, "Invalid range for variable \"" \o name \o "\": ["
                                         \o join(line.range, ", ") \o "]")
              ELSE IF hasRange /\ Len(line.range) # 2
              THEN addWarning(p.context, "Invalid range syntax for variable \"" \o name
                                         \o "\": expected [min, max]")
              ELSE p.context
        currentScope == getCurrentScope(p.context)
        isGlobal == currentScope.type = "global"
        added == addVariable(p.store, name, value,
                             IF isGlobal THEN "global" ELSE "trigger",
                             IF isGlobal THEN NoKey ELSE currentScope.key,
                             min, max, Num(p.context.lineNumber))
    IN  IF ~(Len(words) >= 4 /\ IsWord(words[2]) /\ words[3] = "=")
        THEN [p EXCEPT !.context = addError(@, "Invalid variable syntax: " \o trim(line))]
        ELSE IF ~isGlobal /\ isNameRegistered(p.store, name)
        THEN [p EXCEPT !.store = setVariableOverride(@, name, value, currentScope.key).store,
                       !.context = c1]
        ELSE IF added.ret = False
        THEN [p EXCEPT !.context = addError(c1, "Variable name \"" \o name
                                                  \o "\" is already in use")]
        ELSE [p EXCEPT !.store = added.store, !.context = c1]

\* the three "no longer current" assignments
ClearCurrent(c) ==
    [c EXCEPT !.currentComponent = Null, !.currentTrigger = Null, !.currentAttribute = Null]

parseLine(p, line) ==
    LET indent == _getIndent(line)
        c0 == p.context
        c1 == IF indent < getCurrentScope(c0).indent
              THEN ClearCurrent(popScopesToIndent(c0, indent)) ELSE c0
        c2 == IF c1.currentAttribute # Null /\ indent <= c1.currentAttribute.indent
              THEN [c1 EXCEPT !.currentAttribute = Null] ELSE c1
        c3 == IF indent = 0 /\ (_isComponent(line) \/ _isVariable(line) \/ _isTrigger(line))
              THEN ClearCurrent(popScopesToIndent(c2, 0)) ELSE c2
        q == [p EXCEPT !.context = c3]
    IN  IF _isVariable(line) THEN _parseVariable(q, line, indent)
        ELSE IF _isTrigger(line) THEN _parseTrigger(q, line, indent)
        ELSE IF _isModulation(line) THEN _parseModulation(q, line, indent)
        ELSE IF indent > 0 /\ (c3.currentComponent # Null \/ c3.currentTrigger # Null)
        THEN _parseAttribute(q, line, indent)
        ELSE IF _isComponent(line) THEN _parseComponent(q, line, indent)
        ELSE _parseAttribute(q, line, indent)

-----------------------------------------------------------------------------
(* Parser, Pass 2.  A component is addressed by where Object.entries finds  *)
(* it: at = [scopeKey, typeKey, name], with scopeKey = NoKey for the global *)
(* collection.                                                              *)

RECURSIVE Flatten(_)
Flatten(seqs) == IF Len(seqs) = 0 THEN <<>> ELSE Head(seqs) \o Flatten(Tail(seqs))

\* the components of a collection in Object.entries order
ComponentsIn(collection, scopeKey) ==
    Flatten([i \in 1..Len(BucketOrder) |->
                [j \in 1..Len(collection[BucketOrder[i]]) |->
                    [scopeKey |-> scopeKey, typeKey |-> BucketOrder[i],
                     name |-> collection[BucketOrder[i]][j].k]]])

\* the keys of a table in Object.entries order
KeySeq(o) == [i \in 1..Len(o) |-> o[i].k]

ComponentAt(s, at) ==
    IF at.scopeKey = NoKey THEN Get(s.components.global[at.typeKey], at.name)
    ELSE Get(Get(s.components.triggers, at.scopeKey).components[at.typeKey], at.name)

\* component.attributes[attrName] = attrValue
WithAttributeAt(s, at, attrName, attrValue) ==
    LET component == [ComponentAt(s, at) EXCEPT !.attributes = Put(@, attrName, attrValue)]
    IN  IF at.scopeKey = NoKey
        THEN [s EXCEPT !.components.global[at.typeKey] = Put(@, at.name, component)]
        ELSE [s EXCEPT !.components.triggers =
                 Put(@, at.scopeKey,
                     [Get(@, at.scopeKey) EXCEPT !.components[at.typeKey] =
                         Put(@, at.name, component)])]

IsModulatorKind_any(type) == TRUE

\* the kinds Pass 2 lets a modulation line name
IsModulatorKind(type) == type \in {"lfo", "envelope", "noise"}

\* one iteration of the loop over a component's attributes
ResolveComponentAttribute(p, at, attrName) ==
    LET component == ComponentAt(p.store, at)
        schema == getComponentSchema(component.type)
        attrSchema == schema.attributes[attrName]
        attrValue == Get(component.attributes, attrName)
        modulation == attrValue.modulation
        modulatorName == modulation.value.str
        modulatorInfo == getNameInfo(p.store, modulatorName)
        componentInfo == getNameInfo(p.store, attrValue.str)
    IN  IF attrName \notin DOMAIN schema.attributes THEN p
        ELSE IF IsObject(attrValue) /\ hasOwnProperty(attrValue, "modulation")
        THEN IF ~IsComponentRef(modulation) THEN p
             ELSE IF modulatorInfo = Null \/ modulatorInfo.type = "variable"
             THEN [p EXCEPT !.context = addError(@, "Modulator \"" \o modulatorName
                                             \o "\" not found or is not a component")]
             ELSE IF ~IsModulatorKind(modulatorInfo.type)
             THEN [p EXCEPT !.context = addError(@, "Component \"" \o modulatorName
                      \o "\" is type \"" \o modulatorInfo.type
                      \o "\", but only \"lfo\", \"envelope\", and \"noise\" can be used as modulators")]
             ELSE IF Truthy(attrSchema, "acceptsModulation")
                     /\ modulatorInfo.type \notin attrSchema.acceptsModulation
             THEN [p EXCEPT !.context = addError(@, "Attribute \"" \o attrName
                      \o "\" cannot accept modulation from \"" \o modulatorInfo.type \o "\"")]
             ELSE [p EXCEPT !.store = WithAttributeAt(@, at, attrName,
                      [attrValue EXCEPT !.modulation.componentType = Str(modulatorInfo.type)])]
        ELSE IF /\ IsString(attrValue)
                /\ (attrSchema.type = AttributeType.COMPONENT_REF
                    \/ Truthy(attrSchema, "acceptsModulation"))
                /\ componentInfo # Null /\ componentInfo.type # "variable"
                /\ \/ (Truthy(attrSchema, "acceptsComponents")
                       /\ componentInfo.type \in attrSchema.acceptsComponents)
                   \/ (Truthy(attrSchema, "acceptsModulation")
                       /\ componentInfo.type \in attrSchema.acceptsModulation)
        THEN [p EXCEPT !.store = WithAttributeAt(@, at, attrName,
                 [type |-> "component_ref", value |-> attrValue,
                  componentType |-> Str(componentInfo.type)])]
        ELSE p

RECURSIVE ResolveComponentAttributes(_, _, _)
ResolveComponentAttributes(p, at, attrNames) ==
    IF Len(attrNames) = 0 THEN p
    ELSE ResolveComponentAttributes(
             ResolveComponentAttribute(p, at, Head(attrNames)), at, Tail(attrNames))

_resolveComponentAttributeReferences(p, at) ==
    LET component == ComponentAt(p.store, at)
    IN  IF getComponentSchema(component.type) = Null THEN p
        ELSE ResolveComponentAttributes(p, at, KeySeq(component.attributes))

RECURSIVE ResolveComponents(_, _)
ResolveComponents(p, ats) ==
    IF Len(ats) = 0 THEN p
    ELSE ResolveComponents(_resolveComponentAttributeReferences(p, Head(ats)), Tail(ats))

_resolveComponentReferences_skipped(p, componentCollection, scopeKey) == p

_resolveComponentReferences(p, componentCollection, scopeKey) ==
    ResolveComponents(p, ComponentsIn(componentCollection, scopeKey))

RECURSIVE ResolveTriggerComponents(_, _)
\* the loop over components.triggers
ResolveTriggerComponents(p, triggerKeys) ==
    IF Len(triggerKeys) = 0 THEN p
    ELSE ResolveTriggerComponents(
             _resolveComponentReferences(
                 p, Get(p.store.components.triggers, Head(triggerKeys)).components,
                 Head(triggerKeys)),
             Tail(triggerKeys))

\* one iteration of the loop over a trigger's attributes
ResolveTriggerAttribute(p, triggerKey, attrName) ==
    LET trigger == Get(p.store.components.triggers, triggerKey)
        triggerSchema == getTriggerSchema(trigger.type)
        attrSchema == triggerSchema.attributes[attrName]
        attrValue == Get(trigger.attributes, attrName)
        componentInfo == getNameInfo(p.store, attrValue.str)
    IN  IF attrName \notin DOMAIN triggerSchema.attributes THEN p
        ELSE IF IsString(attrValue) /\ attrSchema.type = AttributeType.COMPONENT_REF
        THEN IF /\ componentInfo # Null /\ componentInfo.type # "variable"
                /\ Truthy(attrSchema, "acceptsComponents")
                /\ componentInfo.type \in attrSchema.acceptsComponents
             THEN [p EXCEPT !.store.components.triggers =
                      Put(@, triggerKey,
                          [trigger EXCEPT !.attributes =
                              Put(@, attrName,
                                  [type |-> "component_ref", value |-> attrValue,
                                   componentType |-> Str(componentInfo.type)])])]
             ELSE p
        ELSE IF attrValue = Null THEN Thrown(p)
        ELSE p

RECURSIVE ResolveTriggerAttributes(_, _, _)
ResolveTriggerAttributes(p, triggerKey, attrNames) ==
    IF Len(attrNames) = 0 \/ p.threw THEN p
    ELSE ResolveTriggerAttributes(
             ResolveTriggerAttribute(p, triggerKey, Head(attrNames)),
             triggerKey, Tail(attrNames))

RECURSIVE ResolveTriggers(_, _)
ResolveTriggers(p, triggerKeys) ==
    IF Len(triggerKeys) = 0 \/ p.threw THEN p
    ELSE LET trigger == Get(p.store.components.triggers, Head(triggerKeys))
             triggerSchema == getTriggerSchema(trigger.type)
         IN  ResolveTriggers(
                 IF triggerSchema = Null \/ "attributes" \notin DOMAIN triggerSchema THEN p
                 ELSE ResolveTriggerAttributes(p, Head(triggerKeys),
                                               KeySeq(trigger.attributes)),
                 Tail(triggerKeys))

_resolveTriggerAttributeReferences(p) ==
    ResolveTriggers(p, KeySeq(p.store.components.triggers))

_resolveAllReferences_skipped(p) == p

_resolveAllReferences(p) ==
    _resolveTriggerAttributeReferences(
        ResolveTriggerComponents(
            _resolveComponentReferences(p, p.store.components.global, NoKey),
            KeySeq(p.store.components.triggers)))

-----------------------------------------------------------------------------
(* parse(text) as a function of the parser's two objects and the lines *)

RECURSIVE ParseLoop(_, _, _)
\* the Pass 1 loop from line i on
ParseLoop(p, lines, i) ==
    IF i > Len(lines) \/ p.threw THEN p
    ELSE LET q == [p EXCEPT !.context.lineNumber = i]
         IN  ParseLoop(IF IsBlankOrComment(lines[i]) THEN q ELSE parseLine(q, lines[i]),
                       lines, i + 1)

parse(s, c, lines) ==
    LET p == ParseLoop([store |-> reset(s), context |-> NewContext, threw |-> FALSE],
                       lines, 1)
        q == IF p.threw THEN p ELSE _resolveAllReferences(p)
    IN  [store |-> q.store, context |-> q.context, threw |-> q.threw,
         result |-> [success |-> q.context.errors = <<>>,
                     errors |-> q.context.errors, warnings |-> q.context.warnings]]

-----------------------------------------------------------------------------
(* The store driven through its API *)

MaxCalls == 5

\* names the calls are made with: variables and overrides use VariableNames
StoreNames == {"vib", "lead"}

VariableNames == {"vib"}

StoreKinds == {"oscillator", "noise"}

\* (scope, scopeKey) pairs as the parser passes them
StoreScopes ==
    {<<"global", NoKey>>, <<"trigger", "master">>, <<"trigger", "note_c4">>}

StoreScopeKeys == {"master", "note_c4"}

Init ==
    /\ store = NewStore
    /\ context = NewContext
    /\ text = <<>>
    /\ pc = "idle"
    /\ result = Null
    /\ call = [op |-> "new InstanceStore"]
    /\ ret = Undefined
    /\ calls = 0
    /\ KeyboardInit

AddComponent ==
    \E componentType \in StoreKinds, name \in StoreNames, sc \in StoreScopes :
        LET r == addComponent(store, componentType, name, sc[1], sc[2], <<>>)
        IN  /\ pc = "idle"
            /\ calls < MaxCalls
            /\ calls' = calls + 1
            /\ call' = [op |-> "addComponent", componentType |-> componentType,
                        name |-> name, scope |-> sc[1], scopeKey |-> sc[2]]
            /\ store' = r.store
            /\ ret' = r.ret
            /\ UNCHANGED <<context, text, pc, result, keyboardVars>>

AddVariable ==
    \E name \in VariableNames, value \in {Num(1), Num(2)}, sc \in StoreScopes :
        LET r == addVariable(store, name, value, sc[1], sc[2], Null, Null, Null)
        IN  /\ pc = "idle"
            /\ calls < MaxCalls
            /\ calls' = calls + 1
            /\ call' = [op |-> "addVariable", name |-> name, value |-> value,
                        scope |-> sc[1], scopeKey |-> sc[2]]
            /\ store' = r.store
            /\ ret' = r.ret
            /\ UNCHANGED <<context, text, pc, result, keyboardVars>>

SetVariableOverride ==
    \E name \in VariableNames, scopeKey \in StoreScopeKeys :
        LET r == setVariableOverride(store, name, Num(3), scopeKey)
        IN  /\ pc = "idle"
            /\ calls < MaxCalls
            /\ calls' = calls + 1
            /\ call' = [op |-> "setVariableOverride", name |-> name, value |-> Num(3),
                        scopeKey |-> scopeKey]
            /\ store' = r.store
            /\ ret' = r.ret
            /\ UNCHANGED <<context, text, pc, result, keyboardVars>>

RemoveComponent ==
    \E name \in StoreNames :
        LET r == removeComponent(store, name)
        IN  /\ pc = "idle"
            /\ calls < MaxCalls
            /\ calls' = calls + 1
            /\ call' = [op |-> "removeComponent", name |-> name]
            /\ store' = r.store
            /\ ret' = r.ret
            /\ UNCHANGED <<context, text, pc, result, keyboardVars>>

RemoveVariable ==
    \E name \in VariableNames :
        LET r == removeVariable(store, name)
        IN  /\ pc = "idle"
            /\ calls < MaxCalls
            /\ calls' = calls + 1
            /\ call' = [op |-> "removeVariable", name |-> name]
            /\ store' = r.store
            /\ ret' = r.ret
            /\ UNCHANGED <<context, text, pc, result, keyboardVars>>

\* a read: it changes nothing and is not counted
ResolveVariable ==
    \E name \in VariableNames, scopeKey \in StoreScopeKeys \cup {NoKey} :
        /\ pc = "idle"
        /\ call' = [op |-> "resolveVariable", name |-> name, scopeKey |-> scopeKey]
        /\ ret' = resolveVariable(store, name, scopeKey)
        /\ UNCHANGED <<store, context, text, pc, result, calls, keyboardVars>>

StoreNext ==
    \/ AddComponent
    \/ AddVariable
    \/ SetVariableOverride
    \/ RemoveComponent
    \/ RemoveVariable
    \/ ResolveVariable

StoreSpec == Init /\ [][StoreNext]_vars

-----------------------------------------------------------------------------
(* parse(text), one loop iteration at a time.  `text` is the part of the    *)
(* document the loop has read; the document is any sequence of one to       *)
(* MaxLines lines of Lines.                                                 *)

MaxLines == 4

\* API calls made on a parsed store
MaxEdits == 1

\* a document of components, attributes and modulation lines
ReferenceLines ==
    {[ws |-> <<>>, words |-> <<"oscillator", "lead">>],
     [ws |-> <<" ", " ">>, words |-> <<"pitch", "0">>],
     [ws |-> <<" ", " ">>, words |-> <<"pitch", "vib">>],
     [ws |-> <<" ", " ">>, words |-> <<"tone", "0">>],
     [ws |-> <<" ", " ", " ", " ">>, words |-> <<"modulation", "vib">>],
     [ws |-> <<>>, words |-> <<"lfo", "vib">>],
     [ws |-> <<>>, words |-> <<"compressor", "vib">>],
     [ws |-> <<>>, words |-> <<"wave", "square">>],
     [ws |-> <<>>, words |-> <<"#", "patch">>]}

\* a document of triggers, variables and components at several depths
ScopeLines ==
    {[ws |-> <<>>, words |-> <<"master">>],
     [ws |-> <<" ", " ", " ", " ">>, words |-> <<"note", "c4">>],
     [ws |-> <<"\t">>, words |-> <<"compressor", "vib">>],
     [ws |-> <<"\t", "\t", "\t">>, words |-> <<"lfo", "lead">>],
     [ws |-> <<>>, words |-> <<"variable", "vib", "=", "1">>],
     [ws |-> <<" ", " ">>, words |-> <<"variable", "vib", "=", "2">>],
     [ws |-> <<>>, words |-> <<"volume", "5">>]}

\* parse() up to the loop: both objects are reset
ParseBegin ==
    /\ pc = "idle"
    /\ store' = reset(store)
    /\ context' = NewContext
    /\ text' = <<>>
    /\ pc' = "pass1"
    /\ result' = Null
    /\ call' = [op |-> "parse"]
    /\ ret' = Undefined
    /\ UNCHANGED <<calls, keyboardVars>>

\* one iteration of the Pass 1 loop, on the next line of the text
ParseNextLine(line) ==
    LET c == [context EXCEPT !.lineNumber = Len(text) + 1]
        p == [store |-> store, context |-> c, threw |-> FALSE]
        q == IF IsBlankOrComment(line) THEN p ELSE parseLine(p, line)
    IN  /\ pc = "pass1"
        /\ Len(text) < MaxLines
        /\ text' = Append(text, line)
        /\ store' = q.store
        /\ context' = q.context
        /\ pc' = IF q.threw THEN "threw" ELSE "pass1"
        /\ UNCHANGED <<result, call, ret, calls, keyboardVars>>

ParseReferenceLine == \E line \in ReferenceLines : ParseNextLine(line)

ParseScopeLine == \E line \in ScopeLines : ParseNextLine(line)

\* the end of the text: Pass 2 and the return
ParseFinish ==
    LET q == _resolveAllReferences([store |-> store, context |-> context, threw |-> FALSE])
        returned == [success |-> q.context.errors = <<>>,
                     errors |-> q.context.errors, warnings |-> q.context.warnings]
    IN  /\ pc = "pass1"
        /\ Len(text) >= 1
        /\ store' = q.store
        /\ context' = q.context
        /\ pc' = IF q.threw THEN "threw" ELSE "idle"
        /\ result' = IF q.threw THEN result ELSE returned
        /\ ret' = IF q.threw THEN TypeError ELSE returned
        /\ UNCHANGED <<text, call, calls, keyboardVars>>

\* the store written through its API after a parse
Edit ==
    LET r == addComponent(store, "lfo", "vib", "trigger", "key_f", <<>>)
    IN  /\ pc = "idle"
        /\ result # Null
        /\ calls < MaxEdits
        /\ calls' = calls + 1
        /\ call' = [op |-> "addComponent", componentType |-> "lfo", name |-> "vib",
                    scope |-> "trigger", scopeKey |-> "key_f"]
        /\ store' = r.store
        /\ ret' = r.ret
        /\ UNCHANGED <<context, text, pc, result, keyboardVars>>

ReferenceNext ==
    \/ ParseBegin
    \/ ParseReferenceLine
    \/ ParseFinish

ReferenceSpec == Init /\ [][ReferenceNext]_vars

ScopeNext ==
    \/ ParseBegin
    \/ ParseScopeLine
    \/ ParseFinish
    \/ Edit

ScopeSpec == Init /\ [][ScopeNext]_vars

\* parse() has returned and nothing has happened since
Parsed == pc = "idle" /\ call.op = "parse" /\ result # Null

-----------------------------------------------------------------------------
(* What a store holds under a name *)

\* the tables of component instances: <<scope key or NoKey, bucket, table>>
ComponentTables(s) ==
    {<<NoKey, b, s.components.global[b]>> : b \in DOMAIN s.components.global}
    \cup {<<k, b, Get(s.components.triggers, k).components[b]>> :
            k \in Keys(s.components.triggers), b \in DOMAIN EmptyBuckets}

\* the tables of declared variables: <<scope key or NoKey, table>>
VariableTables(s) ==
    {<<NoKey, s.variables.global>>}
    \cup {<<k, Get(s.variables.triggers, k)>> : k \in Keys(s.variables.triggers)}

ComponentsNamed(s, name) == {t \in ComponentTables(s) : Has(t[3], name)}

VariablesNamed(s, name) == {t \in VariableTables(s) : Has(t[2], name)}

HasOverride(s, name, scopeKey) ==
    /\ Has(s.components.triggers, scopeKey)
    /\ Has(Get(s.components.triggers, scopeKey).variableOverrides, name)

HasLocalVariable(s, name, scopeKey) ==
    /\ Has(s.variables.triggers, scopeKey)
    /\ Has(Get(s.variables.triggers, scopeKey), name)

-----------------------------------------------------------------------------
(* C1..C2: the store driven through its API (StoreSpec) *)

\* C1: in every reachable store no component shares its name with another
\* component (of any scope) or with a variable, and an addComponent call whose
\* name is already registered returns false and leaves the whole store as it was.
C1_NamesGloballyUnique ==
    /\ [](\A name \in StoreNames :
            /\ Cardinality(ComponentsNamed(store, name)) <= 1
            /\ ComponentsNamed(store, name) # {} => VariablesNamed(store, name) = {})
    /\ [][(call'.op = "addComponent" /\ calls' = calls + 1
           /\ isNameRegistered(store, call'.name))
          => (ret' = False /\ store' = store)]_vars

\* C2: resolveVariable(name, scopeKey) answers with the override on scopeKey's
\* trigger record, else the variable declared in that trigger scope, else the
\* global variable, else not-found (null); without a scope key only the global
\* variable is consulted.
C2_ResolutionOrder ==
    call.op = "resolveVariable" =>
        LET name == call.name
            k == call.scopeKey
            scoped == k # NoKey
            override == scoped /\ HasOverride(store, name, k)
            local == scoped /\ HasLocalVariable(store, name, k)
            global == Has(store.variables.global, name)
        IN  /\ override =>
                ret = Get(Get(store.components.triggers, k).variableOverrides, name)
            /\ (~override /\ local) =>
                ret = Get(Get(store.variables.triggers, k), name).value
            /\ (~override /\ ~local /\ global) =>
                ret = Get(store.variables.global, name).value
            /\ (~override /\ ~local /\ ~global) => ret = Null

\* C2 witness: a scoped lookup of a name that has an override, a declaration in
\* that trigger scope and a different global value at once, answered by the override.
C2_Witness ==
    /\ call.op = "resolveVariable"
    /\ call.scopeKey # NoKey
    /\ HasOverride(store, call.name, call.scopeKey)
    /\ HasLocalVariable(store, call.name, call.scopeKey)
    /\ Has(store.variables.global, call.name)
    /\ Get(store.variables.global, call.name).value
         # Get(Get(store.variables.triggers, call.scopeKey), call.name).value
    /\ ret = Num(3)

-----------------------------------------------------------------------------
(* What a step of the Pass 1 loop reads *)

ParseNames == {"vib", "lead", "c4"}

\* the loop reads one more line in this step
ReadsLine == pc = "pass1" /\ Len(text') = Len(text) + 1

\* the line is a variable declaration, or a component declaration that is not
\* indented under an open component or trigger (where it would be read as an
\* attribute line)
IsDeclaration(c, line) ==
    \/ _isVariable(line) /\ Len(line.words) >= 4 /\ line.words[3] = "="
    \/ /\ _isComponent(line) /\ Len(line.words) = 2
       /\ \/ _getIndent(line) = 0
          \/ c.currentComponent = Null /\ c.currentTrigger = Null

DeclaredName(line) == line.words[2]

\* everything the store keeps about the entity of that name
Entity(s, name) ==
    [info |-> getNameInfo(s, name),
     components |-> {<<t[1], t[2], Get(t[3], name)>> : t \in ComponentsNamed(s, name)},
     variables |-> {<<t[1], Get(t[2], name)>> : t \in VariablesNamed(s, name)}]

\* the step records exactly one error, on the line it reads
OneErrorOnLine ==
    /\ Len(context'.errors) = Len(context.errors) + 1
    /\ context'.errors[Len(context'.errors)].line = Len(text')

-----------------------------------------------------------------------------
(* C3..C4: documents of triggers, variables and components (ScopeSpec) *)

C4_IndentedComponentIsTriggerOwned ==
    [][LET line == text'[Len(text')]
           name == DeclaredName(line)
           scope == getCurrentScope(context)
           storageKey == _getComponentStorageKey(line.words[1])
       IN  (/\ ReadsLine /\ _isComponent(line) /\ Len(line.words) = 2
            /\ scope.type # "global" /\ _getIndent(line) > scope.indent
            /\ ~isNameRegistered(store, name))
           => /\ context'.errors = context.errors
              /\ getNameInfo(store', name) # Null
              /\ getNameInfo(store', name).scope = ScopeType.TRIGGER
              /\ getNameInfo(store', name).scopeKey = scope.key
              /\ Has(store'.components.triggers, scope.key)
              /\ Has(Get(store'.components.triggers, scope.key).components[storageKey], name)
              /\ ~Has(store'.components.global[storageKey], name)]_vars

-----------------------------------------------------------------------------
(* What a parsed store holds in its attributes *)

Range(seq) == {seq[i] : i \in 1..Len(seq)}

\* where every component of the store is kept
AllComponents(s) ==
    Range(ComponentsIn(s.components.global, NoKey))
    \cup UNION {Range(ComponentsIn(Get(s.components.triggers, k).components, k)) :
                  k \in Keys(s.components.triggers)}

\* the attribute as getComponentAttribute reads it
AttributeAt(s, at, attrName) ==
    _normalizeAttribute(Get(ComponentAt(s, at).attributes, attrName))

AttributeNames(s, at) == Keys(ComponentAt(s, at).attributes)

\* the schema of the component's kind declares the attribute
InSchema(s, at, attrName) ==
    getAttributeSchema(ComponentAt(s, at).type, attrName) # Null

\* the name is registered for a component, of this kind
ComponentKind(s, name) ==
    IF getNameInfo(s, name) = Null \/ getNameInfo(s, name).type = "variable"
    THEN "none" ELSE getNameInfo(s, name).type

ErrorMessages(errors) == {errors[i].message : i \in 1..Len(errors)}

\* what Pass 2 reports about a modulation it does not resolve
ModulationError(s, attrName, modulatorName) ==
    LET kind == ComponentKind(s, modulatorName)
    IN  IF kind = "none"
        THEN "Modulator \"" \o modulatorName \o "\" not found or is not a component"
        ELSE IF kind \notin {"lfo", "envelope", "noise"}
        THEN "Component \"" \o modulatorName \o "\" is type \"" \o kind
             \o "\", but only \"lfo\", \"envelope\", and \"noise\" can be used as modulators"
        ELSE "Attribute \"" \o attrName \o "\" cannot accept modulation from \"" \o kind \o "\""

-----------------------------------------------------------------------------
(* C5..C8: documents of components, attributes and modulation lines        *)
(* (ReferenceSpec)                                                         *)

AllowList(attrSchema) ==
    IF Truthy(attrSchema, "acceptsComponents") THEN attrSchema.acceptsComponents
    ELSE IF Truthy(attrSchema, "acceptsModulation") THEN attrSchema.acceptsModulation
    ELSE {}

\* the schema makes the attribute a component reference or lets it be modulated
TakesReference(attrSchema) ==
    /\ attrSchema # Null
    /\ \/ attrSchema.type = AttributeType.COMPONENT_REF
       \/ Truthy(attrSchema, "acceptsModulation")

\* the attributes of components and of triggers, each with its schema and value
ReferenceSlots(s) ==
    {[name |-> attrName,
      schema |-> getAttributeSchema(ComponentAt(s, at).type, attrName),
      value |-> AttributeAt(s, at, attrName).value] :
        <<at, attrName>> \in {<<at, attrName>> \in AllComponents(s) \X
                                {"pitch", "volume", "frequency", "resonance", "tone"} :
                                attrName \in AttributeNames(s, at)}}
    \cup {[name |-> attrName,
           schema |-> getTriggerAttributeSchema(Get(s.components.triggers, k).type, attrName),
           value |-> _normalizeAttribute(
                         Get(Get(s.components.triggers, k).attributes, attrName)).value] :
            <<k, attrName>> \in {<<k, attrName>> \in Keys(s.components.triggers) \X
                                   {"filter", "compressor", "envelope", "volume"} :
                                   Has(Get(s.components.triggers, k).attributes, attrName)}}

\* C6: after parse, no attribute that the schema makes a component reference
\* (or lets be modulated) still holds the bare name of a component whose kind
\* is in the attribute's allow-list: Pass 2 has made it a resolved reference
\* to that name and kind; and where the named component's kind is not in the
\* allow-list, an error is recorded.
C6_BareNamesAreUpgraded ==
    Parsed =>
        \A slot \in ReferenceSlots(store) :
            (/\ TakesReference(slot.schema) /\ IsString(slot.value)
             /\ ComponentKind(store, slot.value.str) # "none")
            => /\ ComponentKind(store, slot.value.str) \notin AllowList(slot.schema)
               /\ result.errors # <<>>

C8_DedentedAttributeIsError ==
    [][LET line == text'[Len(text')]
       IN  (/\ ReadsLine /\ ~IsBlankOrComment(line) /\ _getIndent(line) = 0
            /\ ~_isVariable(line) /\ ~_isTrigger(line)
            /\ ~_isComponent(line) /\ ~_isModulation(line)
            /\ (context.currentComponent # Null \/ context.currentTrigger # Null))
           => /\ OneErrorOnLine
              /\ store' = store
              /\ context'.currentComponent = Null
              /\ context'.currentTrigger = Null]_vars

-----------------------------------------------------------------------------
(* C9: parsing again, after earlier parses and API calls (ScopeSpec) *)

\* C9: whenever parse returns, its result and the store are what parsing the
\* same text with a newly constructed store and context gives, whatever was
\* parsed before and whatever API calls were made on the store in between.
C9_ParseIsFunctionOfText ==
    Parsed =>
        /\ store = parse(NewStore, NewContext, text).store
        /\ result = parse(NewStore, NewContext, text).result

\* C9 witness: a document that declares `vib` has been parsed after an earlier
\* parse and an addComponent call for `vib` in scope key_f; nothing of key_f
\* is in the store.
C9_Witness ==
    /\ Parsed
    /\ calls >= 1
    /\ isNameRegistered(store, "vib")
    /\ getNameInfo(store, "vib").scopeKey # "key_f"
    /\ ~Has(store.components.triggers, "key_f")
    /\ Has(store.components.triggers, "master")

-----------------------------------------------------------------------------
(* C10: parse runs to its end (ReferenceSpec) *)

\* C10: parse never throws; and when it returns, the loop has gone through
\* every line (the line counter is the number of lines; every component line
\* at indentation 0 has its name registered, whatever errors came before),
\* Pass 2 has run (every modulation of a schema-declared attribute is resolved
\* or has its error recorded), and success is true exactly when the returned
\* error list, which is the context's, is empty.
C10_ParseNeverAborts ==
    /\ pc # "threw"
    /\ Parsed =>
        /\ context.lineNumber = Len(text)
        /\ \A i \in 1..Len(text) :
              (_isComponent(text[i]) /\ Len(text[i].words) = 2 /\ _getIndent(text[i]) = 0)
              => isNameRegistered(store, DeclaredName(text[i]))
        /\ \A at \in AllComponents(store) : \A attrName \in AttributeNames(store, at) :
              LET modulation == AttributeAt(store, at, attrName).modulation
              IN  (InSchema(store, at, attrName) /\ IsComponentRef(modulation))
                  => \/ modulation.componentType # Null
                     \/ ModulationError(store, attrName, modulation.value.str)
                          \in ErrorMessages(result.errors)
        /\ result.errors = context.errors
        /\ result.success = (result.errors = <<>>)

\* C10 witness: the first line is an error, the lines after it were still
\* parsed (lead is declared, its pitch set and modulated), and Pass 2 has
\* reported the modulator that no line declares.
C10_Witness ==
    /\ Parsed /\ Len(text) = 4
    /\ ~result.success
    /\ Len(result.errors) = 2
    /\ result.errors[1] =
          [line |-> 1, message |-> "Attribute \"wave\" must be inside a component or trigger"]
    /\ result.errors[2] =
          [line |-> 4, message |-> "Modulator \"vib\" not found or is not a component"]
    /\ getComponentAttribute(store, "lead", "pitch").value = Num(0)

-----------------------------------------------------------------------------
(* Attributes driven through the store's API.  A component can be created   *)
(* with an attribute table (addComponent's last argument), which is how an  *)
(* attribute comes to be stored in the old single-value form.               *)

MaxAttributeCalls == 3

\* the components of the model: a global one and one owned by a trigger
AttributeOwners == {"lead", "vib"}

OwnerScope(name) == IF name = "lead" THEN <<"global", NoKey>> ELSE <<"trigger", "key_f">>

AttributeKeys == {"pitch", "volume"}

TriggerAttributeKeys == {"pitch", "volume", "chord"}

AttributeScopeKeys == {"key_f", "master"}

\* { type: 'component_ref', value: name, componentType: kind }
ComponentRef(name, kind) ==
    [type |-> "component_ref", value |-> Str(name), componentType |-> Str(kind)]

\* { type: 'variable_ref', value: name }
VariableRef(name) == [type |-> "variable_ref", value |-> Str(name)]

\* { type: 'expression', value: source }
Expression(source) == [type |-> "expression", value |-> Str(source)]

\* the four kinds of value an attribute holds: a literal, and the three
\* tagged objects _resolveAttributeValue builds
OldFormValues ==
    {Num(1), Str("sine"), VariableRef("rate"), ComponentRef("vib", "lfo"),
     Expression("1+1")}

InitialAttributes ==
    {<<>>} \cup {<<[k |-> "pitch", v |-> v]>> : v \in OldFormValues}

\* 0 is a value that is present
NewValues == {Num(0)}

ModulationRefs == {ComponentRef("vib", "lfo")}

AddAttributedComponent ==
    \E name \in AttributeOwners, attributes \in InitialAttributes :
        LET sc == OwnerScope(name)
            r == addComponent(store, "oscillator", name, sc[1], sc[2], attributes)
        IN  /\ pc = "idle"
            /\ calls < MaxAttributeCalls
            /\ calls' = calls + 1
            /\ call' = [op |-> "addComponent", componentType |-> "oscillator",
                        name |-> name, scope |-> sc[1], scopeKey |-> sc[2]]
            /\ store' = r.store
            /\ ret' = r.ret
            /\ UNCHANGED <<context, text, pc, result, keyboardVars>>

UpdateComponentAttribute ==
    \E name \in AttributeOwners, attributeName \in AttributeKeys, value \in NewValues :
        LET r == updateComponentAttribute(store, name, attributeName, value)
        IN  /\ pc = "idle"
            /\ calls < MaxAttributeCalls
            /\ calls' = calls + 1
            /\ call' = [op |-> "updateComponentAttribute", name |-> name,
                        attributeName |-> attributeName, value |-> value]
            /\ store' = r.store
            /\ ret' = r.ret
            /\ UNCHANGED <<context, text, pc, result, keyboardVars>>

UpdateComponentAttributeModulation ==
    \E name \in AttributeOwners, attributeName \in AttributeKeys,
       modulationRef \in ModulationRefs :
        LET r == updateComponentAttributeModulation(store, name, attributeName, modulationRef)
        IN  /\ pc = "idle"
            /\ calls < MaxAttributeCalls
            /\ calls' = calls + 1
            /\ call' = [op |-> "updateComponentAttributeModulation", name |-> name,
                        attributeName |-> attributeName, modulationRef |-> modulationRef]
            /\ store' = r.store
            /\ ret' = r.ret
            /\ UNCHANGED <<context, text, pc, result, keyboardVars>>

\* a read: it changes nothing and is not counted
GetComponentAttribute ==
    \E name \in AttributeOwners, attributeName \in AttributeKeys :
        /\ pc = "idle"
        /\ call' = [op |-> "getComponentAttribute", name |-> name,
                    attributeName |-> attributeName]
        /\ ret' = getComponentAttribute(store, name, attributeName)
        /\ UNCHANGED <<store, context, text, pc, result, calls, keyboardVars>>

SetTriggerAttribute ==
    \E scopeKey \in AttributeScopeKeys, attributeName \in TriggerAttributeKeys,
       value \in NewValues :
        /\ pc = "idle"
        /\ calls < MaxAttributeCalls
        /\ calls' = calls + 1
        /\ call' = [op |-> "setTriggerAttribute", scopeKey |-> scopeKey,
                    attributeName |-> attributeName, value |-> value]
        /\ store' = setTriggerAttribute(store, scopeKey, attributeName, value).store
        /\ ret' = Undefined
        /\ UNCHANGED <<context, text, pc, result, keyboardVars>>

SetTriggerAttributeModulation ==
    \E scopeKey \in AttributeScopeKeys, attributeName \in TriggerAttributeKeys,
       modulationRef \in ModulationRefs :
        /\ pc = "idle"
        /\ calls < MaxAttributeCalls
        /\ calls' = calls + 1
        /\ call' = [op |-> "setTriggerAttributeModulation", scopeKey |-> scopeKey,
                    attributeName |-> attributeName, modulationRef |-> modulationRef]
        /\ store' = setTriggerAttributeModulation(store, scopeKey, attributeName,
                                                  modulationRef).store
        /\ ret' = Undefined
        /\ UNCHANGED <<context, text, pc, result, keyboardVars>>

\* a read: it changes nothing and is not counted
CollectActions ==
    \E scopeKey \in AttributeScopeKeys :
        /\ pc = "idle"
        /\ call' = [op |-> "collectActions", scopeKey |-> scopeKey]
        /\ ret' = collectActions(store, scopeKey)
        /\ UNCHANGED <<store, context, text, pc, result, calls, keyboardVars>>

AttributeNext ==
    \/ AddAttributedComponent
    \/ UpdateComponentAttribute
    \/ UpdateComponentAttributeModulation
    \/ GetComponentAttribute
    \/ SetTriggerAttribute
    \/ SetTriggerAttributeModulation
    \/ CollectActions

AttributeSpec == Init /\ [][AttributeNext]_vars

-----------------------------------------------------------------------------
(* Attributes: what is stored and what is read *)

\* a stored attribute with no modulation slot: a literal or a tagged object
IsOldForm(attrValue) ==
    /\ attrValue # Undefined
    /\ ~(IsObject(attrValue) /\ hasOwnProperty(attrValue, "modulation"))

\* component.attributes[attributeName] as the store holds it
StoredAttribute(s, name, attributeName) ==
    Get(getComponent(s, name).attributes, attributeName)

\* C11: getComponentAttribute on an attribute stored in the old single-value
\* form (a literal, a variable reference, a component reference or an
\* expression, no modulation slot) returns {value: the stored value itself,
\* modulation: null}; a stored reference or expression comes back with its tag.
C11_OldFormReadsBackUnchanged ==
    (/\ call.op = "getComponentAttribute"
     /\ getComponent(store, call.name) # Null
     /\ IsOldForm(StoredAttribute(store, call.name, call.attributeName)))
    => ret = [value |-> StoredAttribute(store, call.name, call.attributeName),
              modulation |-> Null]

\* the value an attribute carries, whichever form it is stored in
ValueOf(attrValue) ==
    IF IsObject(attrValue) /\ hasOwnProperty(attrValue, "modulation")
    THEN attrValue.value ELSE attrValue

\* the modulation an attribute carries: none in the old form
ModulationOf(attrValue) ==
    IF IsObject(attrValue) /\ hasOwnProperty(attrValue, "modulation")
    THEN attrValue.modulation ELSE Null

\* equal, null and undefined both being "nothing"
Same(a, b) == a = b \/ (IsNullish(a) /\ IsNullish(b))

\* the store without one attribute of one component
WithoutAttribute(s, name, attributeName) ==
    WithComponentAttributes(s, name, Del(getComponent(s, name).attributes, attributeName))

\* trigger.attributes[attributeName] as the store holds it
StoredTriggerAttribute(s, scopeKey, attributeName) ==
    IF Has(s.components.triggers, scopeKey)
    THEN Get(Get(s.components.triggers, scopeKey).attributes, attributeName)
    ELSE Undefined

\* the trigger record of scopeKey without one attribute; an absent record is
\* the record the first write creates
TriggerWithoutAttribute(s, scopeKey, attributeName) ==
    IF Has(s.components.triggers, scopeKey)
    THEN [Get(s.components.triggers, scopeKey) EXCEPT !.attributes = Del(@, attributeName)]
    ELSE [components |-> EmptyBuckets, attributes |-> <<>>, variableOverrides |-> <<>>,
          type |-> IF scopeKey = "master" THEN "master" ELSE "key"]

\* everything of the store but the trigger record of scopeKey
WithoutTrigger(s, scopeKey) == [s EXCEPT !.components.triggers = Del(@, scopeKey)]

\* C12: updateComponentAttribute on an existing component sets the attribute's
\* value and keeps its modulation; updateComponentAttributeModulation sets the
\* modulation and keeps the value; setTriggerAttribute and
\* setTriggerAttributeModulation do the same on a trigger record; nothing else
\* in the store changes.
C12_SetValuePreservesModulationAndBack ==
    [][/\ (call'.op = "updateComponentAttribute" /\ ret' = True) =>
            LET before == StoredAttribute(store, call'.name, call'.attributeName)
                after == StoredAttribute(store', call'.name, call'.attributeName)
            IN  /\ ValueOf(after) = call'.value
                /\ Same(ModulationOf(after), ModulationOf(before))
                /\ WithoutAttribute(store', call'.name, call'.attributeName)
                     = WithoutAttribute(store, call'.name, call'.attributeName)
       /\ (call'.op = "updateComponentAttributeModulation" /\ ret' = True) =>
            LET before == StoredAttribute(store, call'.name, call'.attributeName)
                after == StoredAttribute(store', call'.name, call'.attributeName)
            IN  /\ ModulationOf(after) = call'.modulationRef
                /\ Same(ValueOf(after), ValueOf(before))
                /\ WithoutAttribute(store', call'.name, call'.attributeName)
                     = WithoutAttribute(store, call'.name, call'.attributeName)
       /\ call'.op = "setTriggerAttribute" =>
            LET before == StoredTriggerAttribute(store, call'.scopeKey, call'.attributeName)
                after == StoredTriggerAttribute(store', call'.scopeKey, call'.attributeName)
            IN  /\ ValueOf(after) = call'.value
                /\ Same(ModulationOf(after), ModulationOf(before))
                /\ TriggerWithoutAttribute(store', call'.scopeKey, call'.attributeName)
                     = TriggerWithoutAttribute(store, call'.scopeKey, call'.attributeName)
                /\ WithoutTrigger(store', call'.scopeKey) = WithoutTrigger(store, call'.scopeKey)
       /\ call'.op = "setTriggerAttributeModulation" =>
            LET before == StoredTriggerAttribute(store, call'.scopeKey, call'.attributeName)
                after == StoredTriggerAttribute(store', call'.scopeKey, call'.attributeName)
            IN  /\ ModulationOf(after) = call'.modulationRef
                /\ Same(ValueOf(after), ValueOf(before))
                /\ TriggerWithoutAttribute(store', call'.scopeKey, call'.attributeName)
                     = TriggerWithoutAttribute(store, call'.scopeKey, call'.attributeName)
                /\ WithoutTrigger(store', call'.scopeKey) = WithoutTrigger(store, call'.scopeKey)
      ]_vars

-----------------------------------------------------------------------------
(* Action collection *)

\* SetValue(kind, value, unit)
SetValue(kind, value) ==
    [type |-> "set_" \o kind, value |-> value,
     unit |-> IF kind = "pitch" THEN "cents" ELSE "percentage"]

\* ApplyModulation(target, modulator)
ApplyModulation(target, modulator) ==
    [type |-> "apply_modulation", target |-> target, modulator |-> modulator]

\* what the i-th entry of an attribute table is to contribute
ExpectedActions(attributes, i) ==
    LET kind == attributes[i].k
        value == ValueOf(attributes[i].v)
        modulation == ModulationOf(attributes[i].v)
    IN  IF kind \notin {"pitch", "volume"} THEN <<>>
        ELSE (IF IsNullish(value) THEN <<>> ELSE <<SetValue(kind, value)>>)
             \o (IF IsNullish(modulation) THEN <<>>
                 ELSE <<ApplyModulation(kind, modulation)>>)

\* C13: collectActions(scopeKey) is, for the pitch and volume entries of the
\* trigger's attribute table in table order, a SetValue action when the value
\* is present immediately followed by an ApplyModulation action when the
\* modulation is present; other attributes give nothing, a scope without a
\* trigger record gives the empty list, and the store is left as it was.
C13_ActionsFollowTheAttributeTable ==
    /\ [](call.op = "collectActions" =>
            IF ~Has(store.components.triggers, call.scopeKey) THEN ret = <<>>
            ELSE LET attributes == Get(store.components.triggers, call.scopeKey).attributes
                 IN  ret = Flatten([i \in 1..Len(attributes) |->
                                       ExpectedActions(attributes, i)]))
    /\ [][call'.op = "collectActions" => store' = store]_vars

\* C13 witness: volume was set before pitch and pitch then got a modulation:
\* three actions, volume first, the pitch modulation right after the pitch value.
C13_Witness ==
    /\ call.op = "collectActions"
    /\ Len(ret) = 3
    /\ ret[1] = SetValue("volume", Num(0))
    /\ ret[2] = SetValue("pitch", Num(0))
    /\ ret[3] = ApplyModulation("pitch", ComponentRef("vib", "lfo"))

-----------------------------------------------------------------------------
(* Actions of a parsed document *)

\* a document of key triggers with attributes, the modulator they name, and
\* an oscillator whose volume names the modulator the old way
ActionLines ==
    {[ws |-> <<>>, words |-> <<"key", "f">>],
     [ws |-> <<" ", " ">>, words |-> <<"pitch", "0">>],
     [ws |-> <<" ", " ", " ", " ">>, words |-> <<"modulation", "vibrato">>],
     [ws |-> <<>>, words |-> <<"key", "g">>],
     [ws |-> <<" ", " ">>, words |-> <<"volume", "120">>],
     [ws |-> <<>>, words |-> <<"lfo", "vibrato">>],
     [ws |-> <<>>, words |-> <<"oscillator", "lead">>],
     [ws |-> <<" ", " ">>, words |-> <<"volume", "vibrato">>]}

ParseActionLine == \E line \in ActionLines : ParseNextLine(line)

\* collectActions on the store a parse has filled: a read
CollectParsedActions ==
    \E scopeKey \in {"key_f", "key_g"} :
        /\ pc = "idle"
        /\ result # Null
        /\ call' = [op |-> "collectActions", scopeKey |-> scopeKey]
        /\ ret' = collectActions(store, scopeKey)
        /\ UNCHANGED <<store, context, text, pc, result, calls, keyboardVars>>

ActionNext ==
    \/ ParseBegin
    \/ ParseActionLine
    \/ ParseFinish
    \/ CollectParsedActions

ActionSpec == Init /\ [][ActionNext]_vars

\* the lines text[i..i+n-1] are exactly `block`, the whole body of a trigger
\* named only there
IsTriggerBody(i, block) ==
    /\ i + Len(block) - 1 <= Len(text)
    /\ \A j \in 1..Len(block) : text[i + j - 1] = block[j]
    /\ i + Len(block) <= Len(text) => _getIndent(text[i + Len(block)]) = 0
    /\ \A j \in 1..Len(text) : text[j] = block[1] => j = i

\* key f / pitch 0 / modulation vibrato
KeyFBody ==
    <<[ws |-> <<>>, words |-> <<"key", "f">>],
      [ws |-> <<" ", " ">>, words |-> <<"pitch", "0">>],
      [ws |-> <<" ", " ", " ", " ">>, words |-> <<"modulation", "vibrato">>]>>

\* key g / volume 120
KeyGBody ==
    <<[ws |-> <<>>, words |-> <<"key", "g">>],
      [ws |-> <<" ", " ">>, words |-> <<"volume", "120">>]>>

\* C14: after parsing a document in which `key f` has the body `pitch 0` with
\* a nested `modulation vibrato`, collectActions('key_f') is exactly
\* [SetValue(pitch, 0, cents), ApplyModulation(pitch, reference to vibrato)];
\* when `key g` has the body `volume 120`, collectActions('key_g') is exactly
\* [SetValue(volume, 120, percentage)].
C14_ParsedKeyScopesYieldActions ==
    (pc = "idle" /\ result # Null /\ call.op = "collectActions") =>
        /\ (call.scopeKey = "key_f" /\ \E i \in 1..Len(text) : IsTriggerBody(i, KeyFBody))
           => /\ Len(ret) = 2
              /\ ret[1] = SetValue("pitch", Num(0))
              /\ ret[2].type = "apply_modulation" /\ ret[2].target = "pitch"
              /\ IsComponentRef(ret[2].modulator)
              /\ ret[2].modulator.value = Str("vibrato")
        /\ (call.scopeKey = "key_g" /\ \E i \in 1..Len(text) : IsTriggerBody(i, KeyGBody))
           => ret = <<SetValue("volume", Num(120))>>

-----------------------------------------------------------------------------
(* Variables: redeclaration *)

\* the variable `name` of a scope as the tables hold it
StoredVariable(s, name, scope, scopeKey) ==
    IF scope = ScopeType.GLOBAL THEN Get(s.variables.global, name)
    ELSE IF Has(s.variables.triggers, scopeKey)
    THEN Get(Get(s.variables.triggers, scopeKey), name) ELSE Undefined

\* C15: addVariable on a registered name is an update in place (true, the
\* stored data replaced, the registry as it was) only when the name is
\* registered as a variable of the same scope kind and the same scope key; on
\* any other registered name it returns false and changes neither the registry
\* nor a variable table.
C15_OnlySameScopeRedeclarationUpdates ==
    [][(call'.op = "addVariable" /\ isNameRegistered(store, call'.name)) =>
          LET info == getNameInfo(store, call'.name)
              sameScope == /\ info.type = "variable"
                           /\ info.scope = call'.scope
                           /\ info.scopeKey = call'.scopeKey
          IN  /\ sameScope =>
                  /\ ret' = True
                  /\ store'.nameRegistry = store.nameRegistry
                  /\ StoredVariable(store', call'.name, call'.scope, call'.scopeKey).value
                       = call'.value
              /\ ~sameScope =>
                  /\ ret' = False
                  /\ store'.nameRegistry = store.nameRegistry
                  /\ store'.variables = store.variables
      ]_vars

-----------------------------------------------------------------------------
(* Variables: overrides written by the parser *)

\* the scope keys a lookup is made with
LookupKeys == {"master", "note_c4", "key_f", NoKey}

\* the overrides of every trigger but scopeKey
OtherOverrides(s, scopeKey) ==
    [i \in {j \in 1..Len(s.components.triggers) : s.components.triggers[j].k # scopeKey}
        |-> s.components.triggers[i].v.variableOverrides]

\* C16: a `variable <name> = <value>` line read inside a trigger scope, <name>
\* being a declared variable, records an override on that trigger only: the
\* registry and the variable tables (value, range, owning scope) stay as they
\* were, resolveVariable(name, that scope) is the line's value, and
\* resolveVariable(name, k) for any other scope key k, or none, is what it was.
C16_ScopedRedeclarationIsAnOverride ==
    [][LET line == text'[Len(text')]
           name == DeclaredName(line)
           scope == getCurrentScope(context')
       IN  (/\ ReadsLine
            /\ _isVariable(line) /\ Len(line.words) = 4 /\ line.words[3] = "="
            /\ scope.type # "global"
            /\ isNameRegistered(store, name)
            /\ getNameInfo(store, name).type = "variable")
           => /\ store'.nameRegistry = store.nameRegistry
              /\ store'.variables = store.variables
              /\ resolveVariable(store', name, scope.key) = Num(NumberTexts[line.words[4]])
              /\ \A k \in LookupKeys \ {scope.key} :
                    resolveVariable(store', name, k) = resolveVariable(store, name, k)
              /\ OtherOverrides(store', scope.key) = OtherOverrides(store, scope.key)
      ]_vars

\* C16 witness: vib is declared globally as 1, then redeclared as 2 under
\* master: master sees 2, every other lookup still sees 1.
C16_Witness ==
    /\ pc = "pass1" /\ Len(text) = 3
    /\ text[1] = [ws |-> <<>>, words |-> <<"variable", "vib", "=", "1">>]
    /\ text[2] = [ws |-> <<>>, words |-> <<"master">>]
    /\ text[3] = [ws |-> <<" ", " ">>, words |-> <<"variable", "vib", "=", "2">>]
    /\ HasOverride(store, "vib", "master")
    /\ resolveVariable(store, "vib", "master") = Num(2)
    /\ resolveVariable(store, "vib", NoKey) = Num(1)
    /\ resolveVariable(store, "vib", "note_c4") = Num(1)
    /\ Get(store.variables.global, "vib").value = Num(1)

-----------------------------------------------------------------------------
(* The components visible in a scope, and what a caller can do with the     *)
(* object it is handed.                                                     *)

ViewKinds == {"oscillator", "lfo"}

ViewNames == {"lead", "vib"}

ViewScopes == {<<"global", NoKey>>, <<"trigger", "key_f">>, <<"trigger", "master">>}

AddScopedComponent ==
    \E componentType \in ViewKinds, name \in ViewNames, sc \in ViewScopes :
        LET r == addComponent(store, componentType, name, sc[1], sc[2], <<>>)
        IN  /\ pc = "idle"
            /\ calls < MaxAttributeCalls
            /\ calls' = calls + 1
            /\ call' = [op |-> "addComponent", componentType |-> componentType,
                        name |-> name, scope |-> sc[1], scopeKey |-> sc[2]]
            /\ store' = r.store
            /\ ret' = r.ret
            /\ UNCHANGED <<context, text, pc, result, keyboardVars>>

\* a read: it changes nothing and is not counted
GetAllComponentsInScope ==
    \E sc \in ViewScopes :
        /\ pc = "idle"
        /\ call' = [op |-> "getAllComponentsInScope", scope |-> sc[1], scopeKey |-> sc[2]]
        /\ ret' = getAllComponentsInScope(store, sc[1], sc[2])
        /\ UNCHANGED <<store, context, text, pc, result, calls, keyboardVars>>

\* the caller adds an entry to, or deletes one from, a table of the object it
\* was handed: result[storageKey][name] = {...} / delete result[storageKey][name]
ChangeReturnedTables ==
    \E storageKey \in {"oscillators", "lfos"}, name \in ViewNames \cup {"extra"},
       adds \in BOOLEAN :
        LET change(table) == IF adds THEN Put(table, name, [name |-> name])
                             ELSE Del(table, name)
        IN  /\ pc = "idle"
            /\ call.op \in {"getAllComponentsInScope", "change returned tables"}
            /\ calls < MaxAttributeCalls
            /\ calls' = calls + 1
            /\ call' = [op |-> "change returned tables", scope |-> call.scope,
                        scopeKey |-> call.scopeKey]
            /\ IF "ref" \in DOMAIN ret
               THEN /\ store' = [store EXCEPT !.components.global[storageKey] = change(@)]
                    /\ ret' = ret
               ELSE /\ store' = store
                    /\ ret' = [ret EXCEPT !.tables[storageKey] = change(@)]
            /\ UNCHANGED <<context, text, pc, result, keyboardVars>>

ViewNext ==
    \/ AddScopedComponent
    \/ GetAllComponentsInScope
    \/ ChangeReturnedTables

ViewSpec == Init /\ [][ViewNext]_vars

\* the trigger's own tables of a kind: none without a record
OwnTable(s, scopeKey, storageKey) ==
    IF Has(s.components.triggers, scopeKey)
    THEN Get(s.components.triggers, scopeKey).components[storageKey] ELSE <<>>

\* C17: for a trigger scope getAllComponentsInScope returns, kind by kind,
\* exactly the global components together with the trigger's own (the
\* trigger's entry on a name both have), in tables that are copies: adding or
\* deleting entries in them leaves the store as it was; a trigger scope without
\* a record gives just the global components; for the global scope the result
\* is the global tables themselves.
C17_ScopeViewOverlaysTriggerOnGlobal ==
    /\ [](call.op = "getAllComponentsInScope" =>
            IF call.scope = "global" THEN ret = [ref |-> "components.global"]
            ELSE /\ DOMAIN ret = {"tables"}
                 /\ \A storageKey \in DOMAIN store.components.global :
                       LET global == store.components.global[storageKey]
                           own == OwnTable(store, call.scopeKey, storageKey)
                           merged == ret.tables[storageKey]
                       IN  /\ Keys(merged) = Keys(global) \cup Keys(own)
                           /\ \A name \in Keys(merged) :
                                 Get(merged, name) = IF Has(own, name) THEN Get(own, name)
                                                     ELSE Get(global, name))
    /\ [][(call'.op = "change returned tables" /\ call'.scope # "global")
          => store' = store]_vars

\* C17 witness: key_f's view held the global lead and key_f's own vib; the
\* caller then changed the tables it was handed, and the store still holds
\* exactly lead and vib.
C17_Witness ==
    /\ call.op = "change returned tables"
    /\ call.scopeKey = "key_f"
    /\ Has(store.components.global.oscillators, "lead")
    /\ Has(OwnTable(store, "key_f", "lfos"), "vib")
    /\ ret.tables # getAllComponentsInScope(store, "trigger", "key_f").tables
    /\ Keys(store.components.global.oscillators) = {"lead"}
    /\ Keys(OwnTable(store, "key_f", "lfos")) = {"vib"}

-----------------------------------------------------------------------------
(* The old single-value syntax *)

\* line i opens the oscillator lead and line i+1 writes its volume the old
\* way, as `volume vibrato`; no other line opens lead, and under lead no other
\* line writes a volume or a modulation
OldSyntaxAt(i) ==
    /\ i + 1 <= Len(text)
    /\ text[i] = [ws |-> <<>>, words |-> <<"oscillator", "lead">>]
    /\ text[i + 1] = [ws |-> <<" ", " ">>, words |-> <<"volume", "vibrato">>]
    /\ \A j \in 1..Len(text) : text[j].words = <<"oscillator", "lead">> => j = i
    /\ i + 2 <= Len(text) => _getIndent(text[i + 2]) = 0

-----------------------------------------------------------------------------
(* ExpressionEvaluator.  An expression is the sequence of its characters.   *)
(* A number of the evaluator is an exact fraction [n, d] in lowest terms    *)
(* with d > 0 (JavaScript computes the same value in floating point, up to  *)
(* rounding), or NotFinite for what a division by zero yields (Infinity or  *)
(* NaN), which every later operation keeps.  The alphabet of the model has  *)
(* no '.', so a number is a run of digits.                                  *)

RECURSIVE Gcd(_, _)
Gcd(a, b) == IF b = 0 THEN a ELSE Gcd(b, a % b)

Abs(n) == IF n < 0 THEN -n ELSE n

NotFinite == [nonfinite |-> TRUE]

\* the number n/d, d # 0
Ratio(n, d) ==
    LET g == Gcd(Abs(n), Abs(d))
        sign == IF d < 0 THEN -1 ELSE 1
    IN  [n |-> sign * (n \div g), d |-> Abs(d) \div g]

\* left + right
Plus(left, right) ==
    IF left = NotFinite \/ right = NotFinite THEN NotFinite
    ELSE Ratio(left.n * right.d + right.n * left.d, left.d * right.d)

\* -value
Negate(value) == IF value = NotFinite THEN NotFinite ELSE Ratio(-value.n, value.d)

\* left - right
Minus(left, right) == Plus(left, Negate(right))

\* left * right
Times(left, right) ==
    IF left = NotFinite \/ right = NotFinite THEN NotFinite
    ELSE Ratio(left.n * right.n, left.d * right.d)

\* left / right
Over(left, right) ==
    IF left = NotFinite \/ right = NotFinite \/ right.n = 0 THEN NotFinite
    ELSE Ratio(left.n * right.d, left.d * right.n)

DigitValue ==
    ("0" :> 0) @@ ("1" :> 1) @@ ("2" :> 2) @@ ("3" :> 3) @@ ("4" :> 4)
    @@ ("5" :> 5) @@ ("6" :> 6) @@ ("7" :> 7) @@ ("8" :> 8) @@ ("9" :> 9)

\* char >= '0' && char <= '9'
IsDigit(char) == char \in DOMAIN DigitValue

\* (char >= 'a' && char <= 'z') || (char >= 'A' && char <= 'Z') || char === '_',
\* for the letters of the model
IsLetter(char) == char \in {"x", "y"}

IsOperator(char) == char \in {"+", "-", "*", "/", "(", ")"}

\* expression.replace(/\s+/g, '')
RemoveWhitespace(expression) == SelectSeq(expression, LAMBDA char : char # " ")

RECURSIVE DigitRun(_)
\* the inner loop collecting num
DigitRun(str) ==
    IF Len(str) > 0 /\ IsDigit(Head(str)) THEN <<Head(str)>> \o DigitRun(Tail(str))
    ELSE <<>>

RECURSIVE NameRun(_)
\* the inner loop collecting varName
NameRun(str) ==
    IF Len(str) > 0 /\ (IsLetter(Head(str)) \/ IsDigit(Head(str)))
    THEN <<Head(str)>> \o NameRun(Tail(str))
    ELSE <<>>

RECURSIVE DecimalValue(_)
\* parseFloat(num) for a run of digits
DecimalValue(num) ==
    IF Len(num) = 0 THEN 0
    ELSE 10 * DecimalValue(SubSeq(num, 1, Len(num) - 1)) + DigitValue[num[Len(num)]]

RECURSIVE Scan(_)
\* the outer loop of _tokenize, from position i on
Scan(str) ==
    IF Len(str) = 0 THEN <<>>
    ELSE LET char == Head(str)
         IN  IF IsDigit(char)
             THEN LET num == DigitRun(str)
                  IN  <<[type |-> "number", value |-> Ratio(DecimalValue(num), 1)]>>
                      \o Scan(SubSeq(str, Len(num) + 1, Len(str)))
             ELSE IF IsOperator(char)
             THEN <<[type |-> "operator", value |-> char]>> \o Scan(Tail(str))
             ELSE IF IsLetter(char)
             THEN LET varName == NameRun(str)
                  IN  <<[type |-> "variable", value |-> join(varName, "")]>>
                      \o Scan(SubSeq(str, Len(varName) + 1, Len(str)))
             ELSE Scan(Tail(str))

_tokenize(expression) == Scan(RemoveWhitespace(expression))

\* the variableResolver handed to the evaluator: the values of the variables
\* in scope; a name without one resolves to null
VariableValues == ("x" :> 5)

variableResolver(name) ==
    IF name \in DOMAIN VariableValues THEN Ratio(VariableValues[name], 1) ELSE Null

\* what a parse function hands back: its value and the index it moved to, or
\* the fact that it threw
Returned(value, index) == [value |-> value, index |-> index, threw |-> FALSE]

Threw == [value |-> Null, index |-> 0, threw |-> TRUE]

\* tokens[index] of the source, whose indices start at 0
TokenAt(tokens, index) ==
    IF index < Len(tokens) THEN tokens[index + 1] ELSE Undefined

IsOperatorToken(token, values) ==
    /\ token # Undefined
    /\ token.type = "operator"
    /\ token.value \in values

RECURSIVE parsePrimary(_, _)
RECURSIVE parseMulDiv(_, _)
RECURSIVE parseAddSub(_, _)
RECURSIVE MulDivLoop(_, _, _)
RECURSIVE AddSubLoop(_, _, _)

\* an expression that is read as a product only
parseExpression_productsOnly(tokens, index) == parseMulDiv(tokens, index)

parseExpression(tokens, index) == parseAddSub(tokens, index)

\* the while loop of parseAddSub, entered with left and index
AddSubLoop(tokens, left, index) ==
    LET token == TokenAt(tokens, index)
    IN  IF index < Len(tokens) /\ IsOperatorToken(token, {"+", "-"})
        THEN LET right == parseMulDiv(tokens, index + 1)
             IN  IF right.threw THEN Threw
                 ELSE AddSubLoop(tokens,
                                 IF token.value = "+" THEN Plus(left, right.value)
                                 ELSE Minus(left, right.value),
                                 right.index)
        ELSE Returned(left, index)

parseAddSub(tokens, index) ==
    LET left == parseMulDiv(tokens, index)
    IN  IF left.threw THEN Threw ELSE AddSubLoop(tokens, left.value, left.index)

\* the while loop of parseMulDiv, entered with left and index
MulDivLoop(tokens, left, index) ==
    LET token == TokenAt(tokens, index)
    IN  IF index < Len(tokens) /\ IsOperatorToken(token, {"*", "/"})
        THEN LET right == parsePrimary(tokens, index + 1)
             IN  IF right.threw THEN Threw
                 ELSE MulDivLoop(tokens,
                                 IF token.value = "*" THEN Times(left, right.value)
                                 ELSE Over(left, right.value),
                                 right.index)
        ELSE Returned(left, index)

parseMulDiv(tokens, index) ==
    LET left == parsePrimary(tokens, index)
    IN  IF left.threw THEN Threw ELSE MulDivLoop(tokens, left.value, left.index)

parsePrimary(tokens, index) ==
    LET token == TokenAt(tokens, index)
    IN  IF token = Undefined THEN Threw               \* token.type of undefined
        ELSE IF token.type = "number" THEN Returned(token.value, index + 1)
        ELSE IF IsOperatorToken(token, {"("})
        THEN LET value == parseExpression(tokens, index + 1)
             IN  IF value.threw THEN Threw
                 ELSE Returned(value.value, value.index + 1)   \* skip ')'
        ELSE IF IsOperatorToken(token, {"-"})
        THEN LET value == parsePrimary(tokens, index + 1)
             IN  IF value.threw THEN Threw
                 ELSE Returned(Negate(value.value), value.index)
        ELSE Threw                                    \* Unexpected token

_evaluateTokens(tokens) == parseExpression(tokens, 0)

\* the tokens.map of evaluate: a variable token becomes a number token
ResolveToken(token) ==
    IF token.type = "variable"
    THEN [type |-> "number", value |-> variableResolver(token.value)]
    ELSE token

\* evaluate(expression): the number, or null when anything threw
evaluate(expression) ==
    LET tokens == _tokenize(expression)
        unknown == \E i \in DOMAIN tokens :
                       /\ tokens[i].type = "variable"
                       /\ variableResolver(tokens[i].value) = Null
        resolvedTokens == [i \in DOMAIN tokens |-> ResolveToken(tokens[i])]
        outcome == _evaluateTokens(resolvedTokens)
    IN  IF unknown \/ outcome.threw THEN Null ELSE outcome.value

-----------------------------------------------------------------------------
(* ExpressionSpec: evaluate is applied once to an expression drawn from the *)
(* expressions below.                                                       *)

MaxChars == 4

ExpressionChars == {"2", "3", "x", "y", "+", "-", "*", "(", ")", " "}

Operands == {<<"2">>, <<"3">>, <<"x">>}

BinaryOperators == {<<"+">>, <<"-">>, <<"*">>, <<"/">>}

\* every text of at most MaxChars characters
ShortExpressions == UNION {[1..n -> ExpressionChars] : n \in 0..MaxChars}

\* longer texts: three operands with and without parentheses, signs, spaces
LongExpressions ==
    UNION {
        {a \o o1 \o b \o o2 \o c,
         <<"(">> \o a \o o1 \o b \o <<")">> \o o2 \o c,
         a \o o1 \o <<"(">> \o b \o o2 \o c \o <<")">>,
         <<"-">> \o <<"(">> \o a \o o1 \o b \o <<")">> \o o2 \o c,
         <<"-", "-">> \o a \o o1 \o <<"-">> \o b \o o2 \o c,
         a \o <<" ">> \o o1 \o <<" ">> \o b \o o2 \o <<" ">> \o c}
        : a \in Operands, b \in Operands, c \in Operands,
          o1 \in BinaryOperators, o2 \in BinaryOperators }

Expressions == ShortExpressions \cup LongExpressions

ExpressionInit ==
    /\ store = NewStore
    /\ context = NewContext
    /\ text = <<>>
    /\ pc = "idle"
    /\ result = Null
    /\ \E expression \in Expressions :
           call = [op |-> "evaluate", expression |-> expression, returned |-> FALSE]
    /\ ret = Undefined
    /\ calls = 0
    /\ KeyboardInit

\* ExpressionEvaluator.evaluate(expression, variableResolver) returns
Evaluate ==
    /\ call.op = "evaluate"
    /\ ~call.returned
    /\ call' = [call EXCEPT !.returned = TRUE]
    /\ ret' = evaluate(call.expression)
    /\ UNCHANGED <<store, context, text, pc, result, calls, keyboardVars>>

ExpressionNext == Evaluate

ExpressionSpec == ExpressionInit /\ [][ExpressionNext]_vars

-----------------------------------------------------------------------------
(* The grammar, read on the tokens a..b of a token sequence:                *)
(*   sum := product (('+'|'-') product)*                                     *)
(*   product := unary (('*'|'/') unary)*                                     *)
(*   unary := '-' unary | primary                                            *)
(*   primary := number | '(' sum ')' | identifier                            *)
(* Each operator below is the value the grammar gives the tokens a..b read  *)
(* as that nonterminal, or Malformed when they cannot be read as it.  An    *)
(* identifier stands for what the lookup returns; an identifier the lookup  *)
(* does not know has no value, which makes the reading Malformed here.      *)

Malformed == [malformed |-> TRUE]

IsSymbol(token, symbols) == token.type = "operator" /\ token.value \in symbols

RECURSIVE SumOf(_, _, _)
RECURSIVE ProductOf(_, _, _)
RECURSIVE UnaryOf(_, _, _)

PrimaryOf(tokens, a, b) ==
    IF a = b /\ tokens[a].type = "number" THEN tokens[a].value
    ELSE IF a = b /\ tokens[a].type = "variable" /\ tokens[a].value \in DOMAIN VariableValues
    THEN Ratio(VariableValues[tokens[a].value], 1)
    ELSE IF a + 1 < b /\ IsSymbol(tokens[a], {"("}) /\ IsSymbol(tokens[b], {")"})
    THEN SumOf(tokens, a + 1, b - 1)
    ELSE Malformed

UnaryOf(tokens, a, b) ==
    IF a < b /\ IsSymbol(tokens[a], {"-"})
    THEN LET operand == UnaryOf(tokens, a + 1, b)
         IN  IF operand = Malformed THEN Malformed ELSE Negate(operand)
    ELSE IF a <= b THEN PrimaryOf(tokens, a, b)
    ELSE Malformed

\* the last operator splits off the last operand: operators of equal
\* precedence associate left to right
ProductOf(tokens, a, b) ==
    LET splits == {k \in (a + 1)..(b - 1) :
                       /\ IsSymbol(tokens[k], {"*", "/"})
                       /\ ProductOf(tokens, a, k - 1) # Malformed
                       /\ UnaryOf(tokens, k + 1, b) # Malformed}
    IN  IF splits = {} THEN UnaryOf(tokens, a, b)
        ELSE LET k == CHOOSE k \in splits : TRUE
                 left == ProductOf(tokens, a, k - 1)
                 right == UnaryOf(tokens, k + 1, b)
             IN  IF tokens[k].value = "*" THEN Times(left, right) ELSE Over(left, right)

SumOf(tokens, a, b) ==
    LET splits == {k \in (a + 1)..(b - 1) :
                       /\ IsSymbol(tokens[k], {"+", "-"})
                       /\ SumOf(tokens, a, k - 1) # Malformed
                       /\ ProductOf(tokens, k + 1, b) # Malformed}
    IN  IF splits = {} THEN ProductOf(tokens, a, b)
        ELSE LET k == CHOOSE k \in splits : TRUE
                 left == SumOf(tokens, a, k - 1)
                 right == ProductOf(tokens, k + 1, b)
             IN  IF tokens[k].value = "+" THEN Plus(left, right) ELSE Minus(left, right)

\* the value of the whole expression by the grammar
GrammarValue(expression) ==
    LET tokens == _tokenize(expression)
    IN  SumOf(tokens, 1, Len(tokens))

\* C19: whenever evaluate has returned for an expression that the grammar can
\* read and whose identifiers the lookup knows, what it returned is the value
\* the grammar gives the expression: products before sums, equal precedence
\* from left to right, unary minus first and repeatable, parentheses first,
\* identifiers by lookup.
C19_WellFormedEvaluatesByGrammar ==
    (call.op = "evaluate" /\ call.returned
        /\ GrammarValue(call.expression) # Malformed)
    => ret = GrammarValue(call.expression)

\* evaluate has returned -5 for "(2-3)*x", where x is 5: the parentheses make
\* the difference come first
C19_Witness ==
    /\ call.op = "evaluate" /\ call.returned
    /\ call.expression = <<"(", "2", "-", "3", ")", "*", "x">>
    /\ GrammarValue(call.expression) # Malformed
    /\ ret = Ratio(-5, 1)

\* the tokens with every identifier taken for an operand, whatever the lookup
\* says of it
AsOperands(tokens) ==
    [i \in DOMAIN tokens |->
        IF tokens[i].type = "variable" THEN [type |-> "number", value |-> Ratio(1, 1)]
        ELSE tokens[i]]

\* the token sequence of the expression cannot be read by the grammar: a
\* parenthesis without its partner, two operands in a row, an operator without
\* an operand, no token at all
IsMalformed(expression) ==
    LET tokens == AsOperands(_tokenize(expression))
    IN  SumOf(tokens, 1, Len(tokens)) = Malformed

\* some identifier of the expression is one the lookup does not know
HasUnresolvable(expression) ==
    \E i \in DOMAIN _tokenize(expression) :
        /\ _tokenize(expression)[i].type = "variable"
        /\ _tokenize(expression)[i].value \notin DOMAIN VariableValues

\* C20: whenever evaluate has returned for an expression whose token sequence
\* is malformed, or that holds an identifier the lookup does not know, it has
\* returned the failure value null and not a number.
C20_MalformedOrUnresolvableFails ==
    (call.op = "evaluate" /\ call.returned
        /\ (IsMalformed(call.expression) \/ HasUnresolvable(call.expression)))
    => ret = Null

-----------------------------------------------------------------------------
(* NestingSpec: parse over documents in which triggers, attributes,         *)
(* modulation lines and declarations nest at several depths.                *)

\* a document of nested triggers, attributes, modulations and declarations
NestingLines ==
    {[ws |-> <<>>, words |-> <<"oscillator", "lead">>],
     [ws |-> <<>>, words |-> <<"master">>],
     [ws |-> <<" ", " ">>, words |-> <<"volume", "5">>],
     [ws |-> <<" ", " ", " ">>, words |-> <<"note", "c4">>],
     [ws |-> <<" ", " ", " ", " ">>, words |-> <<"modulation", "vib">>],
     [ws |-> <<" ", " ", " ">>, words |-> <<"variable", "rate", "=", "1">>],
     [ws |-> <<>>, words |-> <<"lfo", "vib">>]}

ParseNestingLine == \E line \in NestingLines : ParseNextLine(line)

NestingNext ==
    \/ ParseBegin
    \/ ParseNestingLine
    \/ ParseFinish

NestingSpec == Init /\ [][NestingNext]_vars

\* the innermost scope of the stack whose header is indented less than indent;
\* the global sentinel, of indent -1, is always one
EnclosingScope(scopeStack, indent) ==
    LET k == CHOOSE k \in 1..Len(scopeStack) :
                 /\ scopeStack[k].indent < indent
                 /\ \A j \in (k + 1)..Len(scopeStack) : scopeStack[j].indent >= indent
    IN  scopeStack[k]

\* C21: the scope stack always starts with the global sentinel, and for every
\* line the Pass 1 loop reads, of indentation i: after the line the stack
\* holds no scope of indent >= i other than the one a trigger line has just
\* pushed, and a variable or component the line declares under a new name is
\* registered in the innermost trigger scope whose header indent is less than
\* i, or in the global scope if there is none.
C21_ScopeLifetimeFollowsIndentation ==
    /\ [](context.scopeStack[1] = NewContext.scopeStack[1])
    /\ [][LET line == text'[Len(text')]
              i == _getIndent(line)
              stack == context'.scopeStack
              enclosing == EnclosingScope(context.scopeStack, i)
              name == DeclaredName(line)
              info == getNameInfo(store', name)
          IN  (ReadsLine /\ ~IsBlankOrComment(line))
              => /\ \A k \in 1..Len(stack) :
                       stack[k].indent >= i
                       => k = Len(stack) /\ _isTrigger(line) /\ stack[k].indent = i
                 /\ (/\ _isVariable(line) \/ _isComponent(line)
                     /\ Len(line.words) >= 2
                     /\ ~isNameRegistered(store, name)
                     /\ isNameRegistered(store', name))
                    => IF enclosing.type = "global"
                       THEN info.scope = ScopeType.GLOBAL
                       ELSE /\ info.scope = ScopeType.TRIGGER
                            /\ info.scopeKey = enclosing.key]_vars

\* the trigger attributes of the store that carry a modulation reference
TriggerModulations(s) ==
    {t \in Keys(s.components.triggers) \X {"volume"} :
        LET attrValue == StoredTriggerAttribute(s, t[1], t[2])
        IN  /\ IsObject(attrValue) /\ hasOwnProperty(attrValue, "modulation")
            /\ IsComponentRef(attrValue.modulation)}

\* the step is Pass 2 and the return of parse
Finishes == pc = "pass1" /\ pc' = "idle"

\* C22: for every trigger attribute that carries a modulation reference when
\* Pass 1 ends, Pass 2 either fills the reference's kind in with the kind of
\* the component it names, that component existing and its kind being in the
\* attribute's allow-list, or records an error.
C22_TriggerModulationResolvedOrReported ==
    [][Finishes =>
         \A t \in TriggerModulations(store) :
            LET trigger == Get(store.components.triggers, t[1])
                attrSchema == getTriggerAttributeSchema(trigger.type, t[2])
                before == StoredTriggerAttribute(store, t[1], t[2]).modulation
                after == StoredTriggerAttribute(store', t[1], t[2]).modulation
                kind == ComponentKind(store, before.value.str)
            IN  \/ /\ kind # "none"
                   /\ attrSchema # Null /\ kind \in AllowList(attrSchema)
                   /\ after = [before EXCEPT !.componentType = Str(kind)]
                \/ Len(context'.errors) > Len(context.errors)]_vars

\* every attribute the store holds, of components and of triggers, with its
\* owner and what is stored for it
AttributeSlots(s) ==
    UNION {{[owner |-> at, name |-> n, attr |-> Get(ComponentAt(s, at).attributes, n)] :
               n \in AttributeNames(s, at)} : at \in AllComponents(s)}
    \cup UNION {{[owner |-> k, name |-> n, attr |-> StoredTriggerAttribute(s, k, n)] :
                    n \in Keys(Get(s.components.triggers, k).attributes)} :
                   k \in Keys(s.components.triggers)}

\* line j of the text read so far declared an attribute: it is neither a
\* variable, trigger, component nor modulation line, and recorded no error
IsAttributeLineAt(j) ==
    /\ ~IsBlankOrComment(text[j])
    /\ ~_isVariable(text[j]) /\ ~_isTrigger(text[j])
    /\ ~_isComponent(text[j]) /\ ~_isModulation(text[j])
    /\ \A e \in Range(context.errors) : e.line # j

\* the most recent attribute line of the text read so far, or 0
LastAttributeLine ==
    LET candidates == {j \in 1..Len(text) : IsAttributeLineAt(j)}
    IN  IF candidates = {} THEN 0
        ELSE CHOOSE j \in candidates : \A h \in candidates : h <= j

\* a trigger or component header has been read after line j: the attribute of
\* line j is not one of the component or trigger that is open now
HeaderSince(j) ==
    \E h \in (j + 1)..Len(text) : _isTrigger(text[h]) \/ _isComponent(text[h])

\* C23: a step that reads a `modulation <name>` line indented deeper than the
\* most recent attribute line sets the modulation of the attribute that line
\* declared, keeps its value, changes no other attribute and records no
\* error; a step that reads one with no attribute line before it, or not
\* indented deeper, records one error for the line and changes no attribute
\* of the store.  When the attribute line belongs to a component or trigger
\* that a later header has closed, either of the two outcomes is accepted.
C23_ModulationAttachesToLastAttribute ==
    [][LET line == text'[Len(text')]
           j == LastAttributeLine
           modulationRef == [type |-> "component_ref", value |-> Str(rest(line.words)),
                             componentType |-> Null]
           attached ==
               /\ context'.errors = context.errors
               /\ \E slot \in AttributeSlots(store) :
                     /\ slot.name = text[j].words[1]
                     /\ AttributeSlots(store')
                          = (AttributeSlots(store) \ {slot})
                            \cup {[slot EXCEPT !.attr =
                                      [value |-> slot.attr.value,
                                       modulation |-> modulationRef]]}
           rejected ==
               /\ OneErrorOnLine
               /\ AttributeSlots(store') = AttributeSlots(store)
       IN  (ReadsLine /\ _isModulation(line))
           => IF j > 0 /\ _getIndent(line) > _getIndent(text[j])
              THEN attached \/ (HeaderSince(j) /\ rejected)
              ELSE rejected]_vars

\* C24: in every state of the parser, while it reads a document and after, at
\* most one of the current component and the current trigger is set.
C24_AtMostOneCursor ==
    context.currentComponent = Null \/ context.currentTrigger = Null

\* a trigger header has just been read under an open component, whose cursor
\* it has cleared: the trigger is current and the component is not
C24_Witness ==
    /\ pc = "pass1" /\ Len(text) = 2
    /\ _isComponent(text[1]) /\ getComponent(store, DeclaredName(text[1])) # Null
    /\ _isTrigger(text[2]) /\ _getIndent(text[2]) > 0
    /\ context.currentTrigger = [type |-> "note", key |-> "note_c4"]
    /\ context.currentComponent = Null

-----------------------------------------------------------------------------
(* C25..C26, C29: the store driven through its API (StoreSpec) *)

\* C25: in every state of the store, each name registered as a non-variable
\* has a stored component that getComponent returns, of the kind, name and
\* scope the registry records; each stored component is registered as one;
\* and addComponent, whatever kind it is given, has returned true or false.
C25_RegistryMatchesStorage ==
    /\ \A name \in StoreNames :
          LET info == getNameInfo(store, name)
              component == getComponent(store, name)
          IN  /\ (info # Null /\ info.type # "variable")
                 => /\ component # Null /\ component # TypeError
                    /\ component.type = info.type
                    /\ component.name = name
                    /\ component.scope = info.scope
                    /\ info.scope = ScopeType.TRIGGER => component.scopeKey = info.scopeKey
              /\ ComponentsNamed(store, name) # {}
                 => info # Null /\ info.type # "variable"
    /\ call.op = "addComponent" => ret \in {True, False}

\* C26: when removeVariable(name) has returned true, the name is not
\* registered, no variable table of any scope holds an entry for it, and
\* resolveVariable(name, scopeKey) yields null for every scope key and for the
\* global context.
C26_RemovedVariableIsGone ==
    [][(calls' = calls + 1 /\ call'.op = "removeVariable" /\ ret' = True)
       => /\ ~isNameRegistered(store', call'.name)
          /\ VariablesNamed(store', call'.name) = {}
          /\ \A scopeKey \in LookupKeys :
                resolveVariable(store', call'.name, scopeKey) = Null]_vars

-----------------------------------------------------------------------------
(* C27: documents of triggers, variables and components (ScopeSpec) *)

\* the overrides every trigger of the store records: <<scope key, name>>
Overrides(s) ==
    UNION {{<<k, name>> : name \in Keys(Get(s.components.triggers, k).variableOverrides)} :
              k \in Keys(s.components.triggers)}

\* C27: after a parse every override a trigger records is for a name that is
\* registered as a variable; and a `variable <name> = <value>` line read in a
\* trigger scope, <name> being registered as a component, records no override
\* and one error for the line.
C27_OverridesAreOfVariables ==
    /\ [](Parsed => \A o \in Overrides(store) :
                       /\ getNameInfo(store, o[2]) # Null
                       /\ getNameInfo(store, o[2]).type = "variable")
    /\ [][LET line == text'[Len(text')]
              name == DeclaredName(line)
              scope == getCurrentScope(context')
          IN  (/\ ReadsLine
               /\ _isVariable(line) /\ Len(line.words) = 4 /\ line.words[3] = "="
               /\ scope.type # "global"
               /\ isNameRegistered(store, name)
               /\ getNameInfo(store, name).type # "variable")
              => /\ Overrides(store') = Overrides(store)
                 /\ OneErrorOnLine]_vars

-----------------------------------------------------------------------------
(* C28: documents of components, attributes and modulation lines            *)
(* (ReferenceSpec)                                                          *)

\* the component attributes of the store that carry a modulation: <<at, name>>
ComponentModulations(s) ==
    UNION {{<<at, attrName>> : attrName \in
               {n \in AttributeNames(s, at) :
                   IsComponentRef(AttributeAt(s, at, n).modulation)}} :
              at \in AllComponents(s)}

\* the error-free outcome the claim allows for store s
ModulationsAllowed(s) ==
    \A m \in ComponentModulations(s) :
        LET attrSchema == getAttributeSchema(ComponentAt(s, m[1]).type, m[2])
            kind == ComponentKind(s, AttributeAt(s, m[1], m[2]).modulation.value.str)
        IN  /\ kind # "none"
            /\ attrSchema # Null
            /\ Truthy(attrSchema, "acceptsModulation")
            /\ kind \in attrSchema.acceptsModulation

\* C28: after a parse that records no errors, every component attribute that
\* carries a modulation names an existing component whose kind is in the
\* acceptsModulation list of the attribute's schema; a modulation under an
\* attribute whose schema has no such list makes the parse record an error.
C28_ErrorFreeModulationsAreAllowed ==
    (Parsed /\ result.errors = <<>>) => ModulationsAllowed(store)

-----------------------------------------------------------------------------
(* C29: trigger records (StoreSpec) *)

\* Object.keys(this.components.triggers).filter(key => trigger.type === triggerType)
getTriggersByType(s, triggerType) ==
    SelectSeq(KeySeq(s.components.triggers),
              LAMBDA key : Get(s.components.triggers, key).type = triggerType)

\* the trigger kind a scope key stands for
KindOfKey(scopeKey) ==
    IF scopeKey = "master" THEN "master"
    ELSE IF startsWith(scopeKey, "note_") THEN "note"
    ELSE IF startsWith(scopeKey, "key_") THEN "key"
    ELSE "none"

\* C29: in every state of the store each trigger record's kind is master,
\* note or key and is the kind its scope key stands for, whichever operation
\* created the record, and getTriggersByType(kind) returns exactly the scope
\* keys of that kind.
C29_TriggerKindAgreesWithKey ==
    /\ \A scopeKey \in Keys(store.components.triggers) :
          /\ Get(store.components.triggers, scopeKey).type \in {"master", "note", "key"}
          /\ Get(store.components.triggers, scopeKey).type = KindOfKey(scopeKey)
    /\ \A kind \in {"master", "note", "key"} :
          Range(getTriggersByType(store, kind))
            = {scopeKey \in Keys(store.components.triggers) : KindOfKey(scopeKey) = kind}

-----------------------------------------------------------------------------
(* The keyboard layer of script.js: the keydown, keyup and blur listeners   *)
(* over PolyphonyManager, with the document re-parsed between events.  A   *)
(* parse runs inside one event handler, so no listener runs while pc is     *)
(* "pass1".  The audio engine is initialised and createNote returns a note, *)
(* so a started note is always entered in activeNotes.  A note id is the    *)
(* string the code builds; activeNotes is the key set of the Map.           *)

\* keys of the computer keyboard: d and f are in keyToNote, [ is not
KeyboardKeys == {"d", "f", "["}

keyToNote == ("d" :> 60) @@ ("f" :> 61)

noteNames == <<"c", "c#", "d", "d#", "e", "f", "f#", "g", "g#", "a", "a#", "b">>

midiNoteToNoteName(midiNote) ==
    noteNames[(midiNote % 12) + 1] \o ToString((midiNote \div 12) - 1)

\* noteName.replace(/\d+$/, ''), for the one-digit octaves of keyToNote
WithoutOctave(midiNote) == noteNames[(midiNote % 12) + 1]

\* !v of JavaScript
Falsy(v) == v \in {Null, Undefined, Str(""), Num(0), False}

\* getTriggerAttribute(scopeKey, attributeName): the value alone
getTriggerAttribute(s, scopeKey, attributeName) ==
    IF ~Has(s.components.triggers, scopeKey) THEN Null
    ELSE LET attributes == Get(s.components.triggers, scopeKey).attributes
         IN  IF ~Has(attributes, attributeName) \/ Falsy(Get(attributes, attributeName))
             THEN Null
             ELSE _normalizeAttribute(Get(attributes, attributeName)).value

\* the chord text of KeyboardLines that /^[\d\s\-]+$/ matches, split on
\* white space and read by parseInt
CustomChords == ("0 7" :> <<0, 7>>)

\* CHORD_INTERVALS before any chord definition is added to it
CHORD_INTERVALS == ("none" :> <<>>)

\* getChordFrequencies(rootFrequency, midiNote): one frequency per interval,
\* so the intervals stand for the frequencies
getChordFrequencies(s, midiNote) ==
    LET masterChord == getTriggerAttribute(s, "master", "chord")
        named == getTriggerAttribute(s, "note_" \o midiNoteToNoteName(midiNote), "chord")
        noteChord == IF Falsy(named)
                     THEN getTriggerAttribute(s, "note_" \o WithoutOctave(midiNote), "chord")
                     ELSE named
        chordType == IF ~Falsy(noteChord) THEN noteChord.str
                     ELSE IF Falsy(masterChord) THEN "none" ELSE masterChord.str
        predefined == IF chordType \in DOMAIN CHORD_INTERVALS
                      THEN CHORD_INTERVALS[chordType] ELSE <<>>
    IN  IF chordType \in DOMAIN CustomChords THEN CustomChords[chordType]
        ELSE IF 0 \in Range(predefined) THEN predefined ELSE <<0>> \o predefined

\* `keyboard-${key}-${index}`, index counted from 0
NoteId(key, index) == "keyboard-" \o key \o "-" \o ToString(index)

\* the ids the forEach over the frequencies visits
NoteIds(s, key) ==
    {NoteId(key, index - 1) : index \in 1..Len(getChordFrequencies(s, keyToNote[key]))}

\* PolyphonyManager.startNote for each id: an active id is stopped, then set again
startNote(notes, noteIds) == notes \cup noteIds

\* PolyphonyManager.stopNote for each id: an id that is not active is left alone
stopNote(notes, noteIds) == notes \ noteIds

hasActions(s, key) == collectActions(s, "key_" \o key) # <<>>

\* the lines of the documents the editor holds when it is re-parsed
KeyboardLines ==
    {[ws |-> <<>>, words |-> <<"master">>],
     [ws |-> <<" ", " ">>, words |-> <<"chord", "0", "7">>],
     [ws |-> <<>>, words |-> <<"key", "f">>]}

ParseKeyboardLine == \E line \in KeyboardLines : ParseNextLine(line)

\* the click listener: a click on the virtual keyboard focuses it
FocusKeyboard ==
    /\ pc # "pass1"
    /\ ~keyboardFocused
    /\ keyboardFocused' = TRUE
    /\ UNCHANGED <<store, context, text, pc, result, call, ret, calls,
                   activeKeys, activeModifierKeys, activeNotes, keysDown>>

\* a key goes down, or repeats while it is held; the keydown listener runs
KeyDown ==
    \E key \in KeyboardKeys :
        /\ pc # "pass1"
        /\ keysDown' = keysDown \cup {key}
        /\ IF ~keyboardFocused \/ key \in activeKeys \/ key \notin DOMAIN keyToNote
           THEN UNCHANGED <<activeKeys, activeModifierKeys, activeNotes>>
           ELSE /\ activeKeys' = activeKeys \cup {key}
                /\ IF hasActions(store, key)
                   THEN /\ activeModifierKeys' = activeModifierKeys \cup {key}
                        /\ UNCHANGED activeNotes
                   ELSE /\ activeNotes' = startNote(activeNotes, NoteIds(store, key))
                        /\ UNCHANGED activeModifierKeys
        /\ UNCHANGED <<store, context, text, pc, result, call, ret, calls,
                       keyboardFocused>>

\* a held key goes up; the keyup listener runs
KeyUp ==
    \E key \in keysDown :
        /\ pc # "pass1"
        /\ keysDown' = keysDown \ {key}
        /\ IF ~keyboardFocused \/ key \notin DOMAIN keyToNote
           THEN UNCHANGED <<activeKeys, activeModifierKeys, activeNotes>>
           ELSE /\ activeKeys' = activeKeys \ {key}
                /\ IF hasActions(store, key)
                   THEN /\ activeModifierKeys' = activeModifierKeys \ {key}
                        /\ UNCHANGED activeNotes
                   ELSE /\ activeNotes' = stopNote(activeNotes, NoteIds(store, key))
                        /\ UNCHANGED activeModifierKeys
        /\ UNCHANGED <<store, context, text, pc, result, call, ret, calls,
                       keyboardFocused>>

\* the virtual keyboard loses focus; the blur listener runs, stopping
\* `keyboard-${key}` for each active key
Blur ==
    /\ pc # "pass1"
    /\ keyboardFocused
    /\ keyboardFocused' = FALSE
    /\ activeNotes' = stopNote(activeNotes, {"keyboard-" \o key : key \in activeKeys})
    /\ activeKeys' = {}
    /\ activeModifierKeys' = {}
    /\ UNCHANGED <<store, context, text, pc, result, call, ret, calls, keysDown>>

KeyboardNext ==
    \/ FocusKeyboard
    \/ KeyDown
    \/ KeyUp
    \/ Blur
    \/ ParseBegin
    \/ ParseKeyboardLine
    \/ ParseFinish

KeyboardSpec == Init /\ [][KeyboardNext]_vars

\* C30: no stuck notes: every note a keydown started is stopped by the
\* matching keyup or by the next blur of the virtual keyboard, so whenever
\* every key is up or the keyboard is without focus, the polyphony manager
\* holds no active note.
C30_NoStuckNotes ==
    (keysDown = {} \/ ~keyboardFocused) => activeNotes = {}

====
